---- MODULE Spec2Model ----
(***************************************************************************)
(* The xDS discovery server of contour: the resource caches with their     *)
(* version condition (Cond), the event handler that updates them, and the  *)
(* stream handlers that serve each connected proxy.                        *)
(*                                                                         *)
(* The source tree holds three generations of the stream handler, all of   *)
(* which are modelled; every stream is served by one of them:              *)
(*   "stream"            stream                  internal/grpc/grpc.go:305 *)
(*   "grpcServer_stream" grpcServer.stream       unnamed/part_004:183      *)
(*   "StreamClusters"    CDS.StreamClusters      unnamed/part_003:184      *)
(*   "StreamListeners"   LDS.StreamListeners     unnamed/part_003:294      *)
(***************************************************************************)
EXTENDS Integers, Sequences, FiniteSets, TLC

\* ------------------------------------------------------------------ bounds

\* The number of event-handler calls (OnAdd / OnUpdate / OnDelete and the
\* endpoints writer) a behaviour may contain.
MaxEvents == 2

\* ------------------------------------------------------- program constants

\* Mutant of ChanCap: an unbuffered channel, make(chan int).
Unbuffered == 1 - 1

\* make(chan int, 1): the capacity of a stream's notification channel.
ChanCap == 1

\* The connected streams.
Streams == {1, 2}

\* The four resource kinds, each with a cache of its own.
Types == {"CDS", "EDS", "LDS", "RDS"}

typePrefix == "type.googleapis.com/envoy.api.v2."

endpointType == typePrefix \o "ClusterLoadAssignment"

clusterType == typePrefix \o "Cluster"

routeType == typePrefix \o "RouteConfiguration"

listenerType == typePrefix \o "Listener"

\* TypeURL() of the resourcer of each kind.
TypeURL(t) ==
    CASE t = "CDS" -> clusterType
      [] t = "EDS" -> endpointType
      [] t = "LDS" -> listenerType
      [] t = "RDS" -> routeType

\* The type_url values a client may put in a request: the four registered
\* ones, the empty string and one that names no resource.
RequestURLs == {TypeURL(t) : t \in Types} \cup {"", typePrefix \o "Bogus"}

\* s.resources[req.TypeUrl]: the registered resourcer of a type URL, "none"
\* when the map has no such key.
resources(url) ==
    IF \E t \in Types : TypeURL(t) = url
    THEN CHOOSE t \in Types : TypeURL(t) = url
    ELSE "none"

\* The resource names a cache may hold; a cache's contents are a set of them
\* (the sorted vector of the code, without its order).
Names == {"a"}

Collections == SUBSET Names

\* The version_info a connecting client may carry in its request: absent, or
\* the decimal of a version it holds from an earlier connection.
ClientVersions == {"", "2"}

\* ---------------------------------------------------------------- encoding

Digit(d) ==
    CASE d = 0 -> "0" [] d = 1 -> "1" [] d = 2 -> "2" [] d = 3 -> "3"
      [] d = 4 -> "4" [] d = 5 -> "5" [] d = 6 -> "6" [] d = 7 -> "7"
      [] d = 8 -> "8" [] d = 9 -> "9"

RECURSIVE FormatNat(_)
FormatNat(n) ==
    IF n < 10 THEN Digit(n) ELSE FormatNat(n \div 10) \o Digit(n % 10)

\* strconv.FormatInt(int64(n), 10)
FormatInt(n) == IF n < 0 THEN "-" \o FormatNat(0 - n) ELSE FormatNat(n)

\* The number a decimal string of the model denotes ("" denotes 0: an absent
\* version_info). Only the strings FormatInt yields within the bounds occur.
ParseInt(str) ==
    IF str = "" THEN 0
    ELSE CHOOSE n \in -1 .. 99 : FormatInt(n) = str

\* ------------------------------------------------------------------- state

VARIABLES
    values,   \* values[t]: the contents of the cache of kind t
    cond,     \* cond[t]: the Cond of the cache: [last, waiters]
    mu,       \* mu[t]: "free", or who sits in Cond[t] holding its mutex, blocked on a channel write
    events,   \* the number of event-handler calls so far
    strm,     \* strm[s]: the stream handler goroutine of stream s
    fetched,  \* what the last Fetch call returned
    reh,      \* the ResourceEventHandler: its IngressClass, the builder's object cache, its last call
    tr,       \* the Translator: its three caches, its last call
    cc,       \* one clusterCache at the level of its mutex and slices
    rds,      \* the route caches behind RDS and the last response built from them
    vh,       \* the VirtualHostCache recomputed from a map of Ingresses, its last call
    pf,       \* the last call of a pure function: its name, arguments and result
    ad        \* the DAGAdapter in the middle of update(): its position, what each step has left

vars == <<values, cond, mu, events, strm, fetched, reh, tr, cc, rds, vh, pf, ad>>

\* What the stream handlers and the cache writers never touch.
apart == <<fetched, reh, tr, cc, rds, vh, pf, ad>>

\* A component that takes no part in the behaviours at hand.
Idle == "idle"

\* The stream endpoints a client can open: the handler that serves it and the
\* kind it asks for. stream() is called alike for the four kinds, and
\* grpcServer.stream takes the kind from the type_url of each request (a
\* client is taken to ask for one kind throughout, or to send a type_url that
\* names no resource): both are opened on CDS, whose cache update() writes,
\* and on EDS, whose cache the endpoints writer writes. StreamEndpoints and
\* StreamRoutes of part_003 repeat StreamClusters line for line and are
\* represented by it.
Endpoints ==
    {<<"stream", t>> : t \in {"CDS", "EDS"}}
        \cup {<<"grpcServer_stream", t>> : t \in {"CDS", "EDS"}}
        \cup {<<"StreamClusters", "CDS">>, <<"StreamListeners", "LDS">>}

NoResp == [version_info |-> "", resources |-> {}, type_url |-> "", nonce |-> ""]

\* No Fetch call has returned yet.
NoFetch == [typ |-> "none", resp |-> NoResp, err |-> FALSE]

\* last := 0
InitialLast == 0

StartPC(kind) ==
    CASE kind = "stream" -> "register"
      [] kind = "StreamClusters" -> "register"
      [] kind = "grpcServer_stream" -> "recv"
      [] kind = "StreamListeners" -> "static"

\* ch := make(chan int, 1); last := 0; nonce := 0
NewStream(e) ==
    [kind |-> e[1], typ |-> e[2], pc |-> StartPC(e[1]),
     last |-> InitialLast, nonce |-> 0, ch |-> <<>>,
     req |-> "", resp |-> NoResp, nsent |-> 0, lastSent |-> NoResp,
     err |-> "nil"]

\* The handlers in a fixed order: the two streams are interchangeable, and
\* Init lists each pair of endpoints once.
KindOrder(kind) ==
    CASE kind = "stream" -> 1
      [] kind = "grpcServer_stream" -> 2
      [] kind = "StreamClusters" -> 3
      [] kind = "StreamListeners" -> 4

\* Both streams are opened on one resource kind, so that its Cond serves more
\* than one waiter; the caches of the other kinds are written all the same.
Init ==
    /\ values = [t \in Types |-> {}]
    /\ cond = [t \in Types |-> [last |-> 0, waiters |-> <<>>]]
    /\ mu = [t \in Types |-> "free"]
    /\ events = 0
    /\ \E e1 \in Endpoints, e2 \in Endpoints :
          /\ e1[2] = e2[2]
          /\ KindOrder(e1[1]) <= KindOrder(e2[1])
          /\ strm = [s \in Streams |-> NewStream(IF s = 1 THEN e1 ELSE e2)]
    /\ fetched = NoFetch
    /\ reh = Idle /\ tr = Idle /\ cc = Idle
    /\ rds = Idle /\ vh = Idle /\ pf = Idle /\ ad = Idle

\* ---------------------------------------------------------------- the Cond

\* A write ch <- v completes at once when the buffer has room.
CanSend(c) == Len(c) < ChanCap

\* Mutant of CondRegister: signals at once when the version is at or ahead
\* of last.
CondRegisterAtOrAhead(c, s, chan, last) ==
    IF c.last >= last
    THEN IF CanSend(chan)
         THEN [cond |-> c, ch |-> Append(chan, c.last), blocked |-> FALSE]
         ELSE [cond |-> c, ch |-> chan, blocked |-> TRUE]
    ELSE [cond |-> [c EXCEPT !.waiters = Append(@, s)], ch |-> chan, blocked |-> FALSE]

\* Cond.Register(ch, last): signal at once when the version is ahead of last,
\* queue the channel otherwise.
CondRegister(c, s, chan, last) ==
    IF c.last > last
    THEN IF CanSend(chan)
         THEN [cond |-> c, ch |-> Append(chan, c.last), blocked |-> FALSE]
         ELSE [cond |-> c, ch |-> chan, blocked |-> TRUE]
    ELSE [cond |-> [c EXCEPT !.waiters = Append(@, s)], ch |-> chan, blocked |-> FALSE]

\* for _, ch := range c.waiters { ch <- c.last }: the channels after the
\* writes that complete, and whether one blocked.
RECURSIVE Deliver(_, _, _)
Deliver(ws, v, chans) ==
    IF ws = <<>>
    THEN [chans |-> chans, blocked |-> FALSE]
    ELSE IF CanSend(chans[Head(ws)])
         THEN Deliver(Tail(ws), v, [chans EXCEPT ![Head(ws)] = Append(@, v)])
         ELSE [chans |-> chans, blocked |-> TRUE]

\* Cond.Notify(): advance the version, write it to every queued channel once,
\* clear the queue.
CondNotify(c, chans) ==
    LET d == Deliver(c.waiters, c.last + 1, chans)
    IN  [cond |-> [last |-> c.last + 1,
                   waiters |-> IF d.blocked THEN c.waiters ELSE <<>>],
         chans |-> d.chans, blocked |-> d.blocked]

\* The shared state a cache update works on.
World == [values |-> values, cond |-> cond, mu |-> mu,
          chans |-> [s \in Streams |-> strm[s].ch]]

\* The writer is stuck inside a Notify, holding that Cond's mutex.
WriterBlocked(w) == \E t \in Types : w.mu[t] = "writer"

\* Mutant of CacheUpdate: installs and notifies without comparing.
CacheUpdateAlways(w, t, coll) ==
    IF WriterBlocked(w)
    THEN w
    ELSE LET n == CondNotify(w.cond[t], w.chans)
         IN  [values |-> [w.values EXCEPT ![t] = coll],
              cond |-> [w.cond EXCEPT ![t] = n.cond],
              mu |-> [w.mu EXCEPT ![t] = IF n.blocked THEN "writer" ELSE "free"],
              chans |-> n.chans]

\* cache.Update(collection) of the cache of kind t: install the collection
\* and notify when it differs from the contents, do nothing when it is
\* equal. (A writer that is blocked does not get here.)
CacheUpdate(w, t, coll) ==
    IF WriterBlocked(w) \/ coll = w.values[t]
    THEN w
    ELSE LET n == CondNotify(w.cond[t], w.chans)
         IN  [values |-> [w.values EXCEPT ![t] = coll],
              cond |-> [w.cond EXCEPT ![t] = n.cond],
              mu |-> [w.mu EXCEPT ![t] = IF n.blocked THEN "writer" ELSE "free"],
              chans |-> n.chans]

Install(w) ==
    /\ values' = w.values
    /\ cond' = w.cond
    /\ mu' = w.mu
    /\ strm' = [s \in Streams |-> [strm[s] EXCEPT !.ch = w.chans[s]]]
    /\ UNCHANGED apart

\* ------------------------------------------------------- the event handler

\* d.ListenerCache.Update(v.Visit())
updateListeners(w, l) == CacheUpdate(w, "LDS", l)

\* d.RouteCache.Update(routes)
updateRoutes(w, r) == CacheUpdate(w, "RDS", r)

\* Mutant of updateClusters: writes the cache contents without going through
\* Update, so nothing is notified.
updateClustersSilently(w, c) == [w EXCEPT !.values["CDS"] = c]

\* d.clusterCache.Update(v.Visit())
updateClusters(w, c) == CacheUpdate(w, "CDS", c)

\* DAGAdapter.update(), reached from OnAdd, OnUpdate and OnDelete: l, r and c
\* are what the three visitors yield for the recomputed DAG.
update(l, r, c) ==
    /\ events < MaxEvents
    /\ \A t \in Types : mu[t] = "free"
    /\ events' = events + 1
    /\ Install(updateClusters(updateRoutes(updateListeners(World, l), r), c))

\* The endpoints writer: the load assignments computed from an Endpoints
\* event replace the contents of the EDS cache.
EndpointsUpdate(coll) ==
    /\ events < MaxEvents
    /\ \A t \in Types : mu[t] = "free"
    /\ events' = events + 1
    /\ Install(CacheUpdate(World, "EDS", coll))

\* ------------------------------------------------------ the stream handlers

Set(s, r) == strm' = [strm EXCEPT ![s] = r] /\ UNCHANGED apart

\* return: the handler is gone, and with it its locals and the record of
\* what it sent (nsent responses, the last of them lastSent); the channel
\* object lives on wherever it is still referenced.
Return(r) ==
    [r EXCEPT !.pc = "closed", !.resp = NoResp, !.last = 0, !.nonce = 0, !.req = "",
              !.nsent = 0, !.lastSent = NoResp]

\* return err: the error the handler returns to the gRPC runtime, which ends
\* the stream with it.
ReturnErr(r, err) == [Return(r) EXCEPT !.err = err]

\* Mutant of Recv: the handler takes last from the version_info of the
\* request it has read.
RecvUsesVersion(s, url, ver) ==
    LET me == strm[s]
    IN  /\ me.kind = "grpcServer_stream"
        /\ me.pc = "recv"
        /\ resources(url) \in {"none", me.typ}
        /\ IF resources(url) = "none"
           THEN Set(s, ReturnErr(me, "no resourcer registered"))
           ELSE Set(s, [me EXCEPT !.typ = resources(url), !.req = ver,
                                  !.last = ParseInt(ver), !.pc = "register"])
        /\ UNCHANGED <<values, cond, mu, events>>

\* req, err := st.Recv(); r, ok := s.resources[req.TypeUrl]
\* (grpcServer.stream only: the other handlers never read a request).
Recv(s, url, ver) ==
    LET me == strm[s]
    IN  /\ me.kind = "grpcServer_stream"
        /\ me.pc = "recv"
        /\ resources(url) \in {"none", me.typ}
        /\ IF resources(url) = "none"
           THEN Set(s, ReturnErr(me, "no resourcer registered"))
           ELSE Set(s, [me EXCEPT !.typ = resources(url), !.req = ver, !.pc = "register"])
        /\ UNCHANGED <<values, cond, mu, events>>

\* st.Recv() returns an error: the client closed the stream or the context
\* was cancelled.
RecvErr(s) ==
    LET me == strm[s]
    IN  /\ me.kind = "grpcServer_stream"
        /\ me.pc = "recv"
        /\ Set(s, ReturnErr(me, "recv"))
        /\ UNCHANGED <<values, cond, mu, events>>

\* Mutant of Register: the handler hands its channel to Register twice.
RegisterTwice(s) ==
    LET me == strm[s]
        t == me.typ
        r1 == CondRegister(cond[t], s, me.ch, me.last)
        r == IF r1.blocked THEN r1 ELSE CondRegister(r1.cond, s, r1.ch, me.last)
    IN  /\ me.pc = "register"
        /\ mu[t] = "free"
        /\ cond' = [cond EXCEPT ![t] = r.cond]
        /\ mu' = [mu EXCEPT ![t] = IF r.blocked THEN "stream" ELSE "free"]
        /\ Set(s, [me EXCEPT !.ch = r.ch,
                             !.pc = IF r.blocked THEN "blocked" ELSE "select"])
        /\ UNCHANGED <<values, events>>

\* n.Register(ch, last)
Register(s) ==
    LET me == strm[s]
        t == me.typ
        r == CondRegister(cond[t], s, me.ch, me.last)
    IN  /\ me.pc = "register"
        /\ mu[t] = "free"
        /\ cond' = [cond EXCEPT ![t] = r.cond]
        /\ mu' = [mu EXCEPT ![t] = IF r.blocked THEN "stream" ELSE "free"]
        /\ Set(s, [me EXCEPT !.ch = r.ch,
                             !.pc = IF r.blocked THEN "blocked" ELSE "select"])
        /\ UNCHANGED <<values, events>>

\* Mutant of Response: the response is labelled with the version after the
\* one the notification carried.
ResponseNextVersion(me, v) ==
    [version_info |-> FormatInt(v + 1), resources |-> values[me.typ],
     type_url |-> TypeURL(me.typ), nonce |-> FormatInt(me.nonce)]

\* The response each handler builds for the notification v it has received,
\* from the cache contents it reads then.
Response(me, v) ==
    CASE me.kind = "stream" ->
            [version_info |-> FormatInt(v), resources |-> values[me.typ],
             type_url |-> TypeURL(me.typ), nonce |-> FormatInt(me.nonce)]
      [] me.kind = "StreamClusters" ->
            [version_info |-> FormatInt(v), resources |-> values[me.typ],
             type_url |-> TypeURL(me.typ), nonce |-> FormatInt(me.nonce + 1)]
      [] me.kind = "grpcServer_stream" ->
            [version_info |-> "0", resources |-> values[me.typ],
             type_url |-> TypeURL(me.typ), nonce |-> "0"]

\* case last = <-ch: the notification is taken and the response built.
Notified(s) ==
    LET me == strm[s]
        v == Head(me.ch)
    IN  /\ me.pc = "select"
        /\ me.ch # <<>>
        /\ Set(s, [me EXCEPT !.last = v, !.ch = Tail(@),
                             !.nonce = IF me.kind = "StreamClusters" THEN @ + 1 ELSE @,
                             !.resp = Response(me, v), !.pc = "send"])
        /\ UNCHANGED <<values, cond, mu, events>>

\* LDS.StreamListeners: the one response, built on entry without registering.
StaticResponse(s) ==
    LET me == strm[s]
    IN  /\ me.pc = "static"
        /\ Set(s, [me EXCEPT !.nonce = 1,
                             !.resp = [version_info |-> FormatInt(0),
                                       resources |-> values[me.typ],
                                       type_url |-> TypeURL(me.typ),
                                       nonce |-> FormatInt(1)],
                             !.pc = "send"])
        /\ UNCHANGED <<values, cond, mu, events>>

\* proto.Marshal fails while the response is built: return err.
MarshalErr(s) ==
    LET me == strm[s]
    IN  /\ \/ me.pc = "select" /\ me.ch # <<>>
           \/ me.pc = "static"
        /\ Set(s, IF me.pc = "select"
                  THEN ReturnErr([me EXCEPT !.ch = Tail(@)], "marshal")
                  ELSE ReturnErr(me, "marshal"))
        /\ UNCHANGED <<values, cond, mu, events>>

\* Where the handler goes once Send has returned nil.
AfterSend(kind) ==
    CASE kind = "stream" -> "register"
      [] kind = "StreamClusters" -> "register"
      [] kind = "grpcServer_stream" -> "recv"
      [] kind = "StreamListeners" -> "wait"

\* st.Send(out) returns nil; the loop iterates and the request read in this
\* iteration goes out of scope.
Send(s) ==
    LET me == strm[s]
    IN  /\ me.pc = "send"
        /\ Set(s, [me EXCEPT !.nsent = @ + 1, !.lastSent = me.resp, !.resp = NoResp,
                             !.req = "",
                             !.nonce = IF me.kind = "stream" THEN @ + 1 ELSE @,
                             !.pc = AfterSend(me.kind)])
        /\ UNCHANGED <<values, cond, mu, events>>

\* Mutant of SendErr: the error of one stream ends every stream.
SendErrEndsAll(s) ==
    /\ strm[s].pc = "send"
    /\ strm' = [o \in Streams |-> ReturnErr(strm[o], "send")]
    /\ UNCHANGED <<values, cond, mu, events, fetched, reh, tr, cc, rds, vh, pf, ad>>

\* st.Send(out) returns an error (the transport broke, or the context was
\* cancelled while the send was in progress): return err.
SendErr(s) ==
    LET me == strm[s]
    IN  /\ me.pc = "send"
        /\ Set(s, ReturnErr(me, "send"))
        /\ UNCHANGED <<values, cond, mu, events>>

\* The peer cancels the context of a handler that waits in its select (or,
\* in StreamListeners, on ctx.Done() alone): case <-ctx.Done(): return ctx.Err()
CtxDone(s) ==
    LET me == strm[s]
    IN  /\ me.pc \in {"select", "wait"}
        /\ Set(s, ReturnErr(me, "context canceled"))
        /\ UNCHANGED <<values, cond, mu, events>>

StreamStep(s) ==
    \/ \E url \in RequestURLs, ver \in ClientVersions : Recv(s, url, ver)
    \/ RecvErr(s)
    \/ Register(s)
    \/ Notified(s)
    \/ StaticResponse(s)
    \/ MarshalErr(s)
    \/ Send(s)
    \/ SendErr(s)
    \/ CtxDone(s)

Writer ==
    \/ \E l \in Collections, r \in Collections, c \in Collections : update(l, r, c)
    \/ \E coll \in Collections : EndpointsUpdate(coll)

Next == Writer \/ \E s \in Streams : StreamStep(s)

Spec == Init /\ [][Next]_vars

\* ------------------------------------------------------------------- Fetch

\* fetch(r, version, nonce) of grpc.go: the response for the resourcer of
\* kind t, from the cache contents it reads now.
fetch(t, version, nonce) ==
    [version_info |-> FormatInt(version), resources |-> values[t],
     type_url |-> TypeURL(t), nonce |-> FormatInt(nonce)]

\* Mutant of FetchResource: the call passes the cache's version on.
FetchCurrent(t) == fetch(t, cond[t].last, 0)

\* FetchClusters, FetchEndpoints, FetchListeners, FetchRoutes:
\* return fetch(c, 0, 0)
FetchResource(t) == fetch(t, 0, 0)

\* grpcServer.fetch(req): the resourcer is looked up by req.TypeUrl.
grpcServer_fetch(url) ==
    IF resources(url) = "none"
    THEN [typ |-> "none", resp |-> NoResp, err |-> TRUE]
    ELSE [typ |-> resources(url),
          resp |-> [version_info |-> "0", resources |-> values[resources(url)],
                    type_url |-> TypeURL(resources(url)), nonce |-> "0"],
          err |-> FALSE]

\* A Fetch call of kind t returns its response.
Fetch(t) ==
    /\ fetched' = [typ |-> t, resp |-> FetchResource(t), err |-> FALSE]
    /\ UNCHANGED <<values, cond, mu, events, strm, reh, tr, cc, rds, vh, pf, ad>>

\* proto.Marshal fails in Resources(): the call returns the error.
FetchErr(t) ==
    /\ fetched' = [typ |-> t, resp |-> NoResp, err |-> TRUE]
    /\ UNCHANGED <<values, cond, mu, events, strm, reh, tr, cc, rds, vh, pf, ad>>

\* A Fetch call served by grpcServer.fetch returns.
grpcServerFetch(url) ==
    /\ fetched' = grpcServer_fetch(url)
    /\ UNCHANGED <<values, cond, mu, events, strm, reh, tr, cc, rds, vh, pf, ad>>

\* Fetch calls against the caches while the writers change them; no stream
\* is open.
FetchInit ==
    /\ values = [t \in Types |-> {}]
    /\ cond = [t \in Types |-> [last |-> 0, waiters |-> <<>>]]
    /\ mu = [t \in Types |-> "free"]
    /\ events = 0
    /\ strm = [s \in Streams |-> Return(NewStream(<<"stream", "CDS">>))]
    /\ fetched = NoFetch
    /\ reh = Idle /\ tr = Idle /\ cc = Idle
    /\ rds = Idle /\ vh = Idle /\ pf = Idle /\ ad = Idle

FetchNext ==
    \/ Writer
    \/ \E t \in Types : Fetch(t) \/ FetchErr(t)
    \/ \E url \in RequestURLs : grpcServerFetch(url)

FetchSpec == FetchInit /\ [][FetchNext]_vars

\* ---------------------------------------------- the resource event handler

\* const DEFAULT_INGRESS_CLASS = "contour"
DEFAULT_INGRESS_CLASS == "contour"

\* What IngressClass can be configured to: not set, or a class of its own.
IngressClasses == {"", "nginx"}

\* The objects the watchers deliver: a Service, and an Ingress that carries
\* no kubernetes.io/ingress.class annotation, or one of two classes. All have
\* the same namespace and name, so the Ingresses are versions of one object.
Objects ==
    {[kind |-> "Service", annotated |-> FALSE, class |-> ""],
     [kind |-> "Ingress", annotated |-> FALSE, class |-> ""],
     [kind |-> "Ingress", annotated |-> TRUE, class |-> "contour"],
     [kind |-> "Ingress", annotated |-> TRUE, class |-> "nginx"]}

\* No object: the handler has not been called yet.
NoObject == [kind |-> "none", annotated |-> FALSE, class |-> ""]

\* reh.ingressClass()
ingressClass(IngressClass) ==
    IF IngressClass # "" THEN IngressClass ELSE DEFAULT_INGRESS_CLASS

\* Mutant of validIngressClass: every object is admitted.
validAnyClass(IngressClass, obj) == TRUE

\* reh.validIngressClass(obj)
validIngressClass(IngressClass, obj) ==
    IF obj.kind # "Ingress"
    THEN TRUE
    ELSE ~obj.annotated \/ obj.class = ingressClass(IngressClass)

\* dag.Builder.Insert(obj): the object cache maps the identity of obj (its
\* kind, namespace and name) to obj.
Insert(objects, obj) == {o \in objects : o.kind # obj.kind} \cup {obj}

\* dag.Builder.Remove(obj): the identity of obj leaves the object cache.
Remove(objects, obj) == {o \in objects : o.kind # obj.kind}

\* What the visitors yield for the DAG recomputed from the object cache:
\* virtual hosts, and with them a listener, when there is an Ingress, and a
\* cluster when the Ingress has its Service.
routeVisit(objects) ==
    IF \E o \in objects : o.kind = "Ingress" THEN {"a"} ELSE {}

listenerVisit(objects) == routeVisit(objects)

clusterVisit(objects) ==
    IF \A k \in {"Ingress", "Service"} : \E o \in objects : o.kind = k
    THEN {"a"}
    ELSE {}

\* The handler in the middle of a call: the object cache, the caches and
\* streams' channels as the call has left them so far, and how many times
\* the call has run update().
Entry == [objects |-> reh.objects, w |-> World, updates |-> 0]

\* reh.update(): CacheHandler.update(&reh.Builder)
rehUpdate(h) ==
    [h EXCEPT !.w = updateClusters(
                        updateRoutes(
                            updateListeners(h.w, listenerVisit(h.objects)),
                            routeVisit(h.objects)),
                        clusterVisit(h.objects)),
              !.updates = @ + 1]

\* OnAdd(obj)
rehOnAdd(h, obj) ==
    IF ~validIngressClass(reh.IngressClass, obj)
    THEN h
    ELSE rehUpdate([h EXCEPT !.objects = Insert(@, obj)])

\* OnDelete(obj)
rehOnDelete(h, obj) == rehUpdate([h EXCEPT !.objects = Remove(@, obj)])

\* Mutant of rehOnUpdate: the old object is removed and the new one inserted
\* without looking at their classes.
rehOnUpdateUnfiltered(h, oldObj, newObj) ==
    rehUpdate([h EXCEPT !.objects = Insert(Remove(@, oldObj), newObj)])

\* OnUpdate(oldObj, newObj)
rehOnUpdate(h, oldObj, newObj) ==
    LET oldValid == validIngressClass(reh.IngressClass, oldObj)
        newValid == validIngressClass(reh.IngressClass, newObj)
    IN  CASE ~oldValid /\ ~newValid -> h
          [] oldValid /\ ~newValid -> rehOnDelete(h, oldObj)
          [] OTHER -> rehUpdate([h EXCEPT !.objects = Insert(Remove(@, oldObj), newObj)])

\* A call of the handler returns: h is the state it leaves.
Returned(h, op, oldObj, obj) ==
    /\ events < MaxEvents
    /\ events' = events + 1
    /\ reh' = [reh EXCEPT !.objects = h.objects,
                          !.call = [op |-> op, old |-> oldObj, obj |-> obj,
                                    updates |-> h.updates]]
    /\ values' = h.w.values
    /\ cond' = h.w.cond
    /\ mu' = h.w.mu
    /\ strm' = [s \in Streams |-> [strm[s] EXCEPT !.ch = h.w.chans[s]]]
    /\ UNCHANGED <<fetched, tr, cc, rds, vh, pf, ad>>

OnAdd(obj) == Returned(rehOnAdd(Entry, obj), "OnAdd", obj, obj)

OnUpdate(oldObj, newObj) ==
    /\ oldObj.kind = newObj.kind
    /\ Returned(rehOnUpdate(Entry, oldObj, newObj), "OnUpdate", oldObj, newObj)

OnDelete(obj) == Returned(rehOnDelete(Entry, obj), "OnDelete", obj, obj)

\* The handler with an empty object cache and either configuration; one
\* stream is waiting, queued on the cluster cache, and makes no step.
rehInit ==
    /\ values = [t \in Types |-> {}]
    /\ cond = [t \in Types |->
                  [last |-> 0, waiters |-> IF t = "CDS" THEN <<1>> ELSE <<>>]]
    /\ mu = [t \in Types |-> "free"]
    /\ events = 0
    /\ strm = [s \in Streams |->
                  IF s = 1
                  THEN [NewStream(<<"stream", "CDS">>) EXCEPT !.pc = "select"]
                  ELSE Return(NewStream(<<"stream", "CDS">>))]
    /\ fetched = NoFetch
    /\ \E c \in IngressClasses :
          reh = [IngressClass |-> c, objects |-> {},
                 call |-> [op |-> "none", old |-> NoObject, obj |-> NoObject,
                           updates |-> 0]]
    /\ tr = Idle /\ cc = Idle
    /\ rds = Idle /\ vh = Idle /\ pf = Idle /\ ad = Idle

rehNext ==
    \/ \E obj \in Objects : OnAdd(obj) \/ OnDelete(obj)
    \/ \E oldObj \in Objects, newObj \in Objects : OnUpdate(oldObj, newObj)

rehSpec == rehInit /\ [][rehNext]_vars

\* ----------------------------------------------------------- the Translator

\* The bytes that occur in the strings of the model, in ascending byte order.
Alphabet == "*-./0123456789:abcdefghijklmnopqrstuvwxyz"

\* The place of each one-byte string in the byte order.
ByteRank ==
    [c \in {SubSeq(Alphabet, i, i) : i \in 1 .. Len(Alphabet)} |->
        CHOOSE i \in 1 .. Len(Alphabet) : SubSeq(Alphabet, i, i) = c]

\* a < b on Go strings: decided by the first byte in which they differ, a
\* proper prefix standing below its extensions.
NameLess(a, b) ==
    IF a = b THEN FALSE
    ELSE LET n == IF Len(a) < Len(b) THEN Len(a) ELSE Len(b)
             differ == {i \in 1 .. n : SubSeq(a, i, i) # SubSeq(b, i, i)}
         IN  IF differ = {} THEN Len(a) < Len(b)
             ELSE LET i == CHOOSE k \in differ : \A j \in differ : k <= j
                  IN  ByteRank[SubSeq(a, i, i)] < ByteRank[SubSeq(b, i, i)]

\* sort.Sort(clusterByName(values)): values[1..n] sorted by Name.
RECURSIVE sortByName(_)
sortByName(vs) ==
    IF vs = <<>> THEN <<>>
    ELSE LET i == CHOOSE k \in DOMAIN vs :
                      \A j \in DOMAIN vs :
                          ~NameLess(vs[j].Name, vs[k].Name) /\ (vs[j].Name = vs[k].Name => k <= j)
         IN  <<vs[i]>> \o sortByName(SubSeq(vs, 1, i - 1) \o SubSeq(vs, i + 1, Len(vs)))

\* sort.Search(len(values), func(i) bool { return values[i].Name >= name }):
\* the least index whose name is not below name, len+1 when there is none
\* (indices from 1).
Search(vs, name) ==
    LET hits == {i \in DOMAIN vs : ~NameLess(vs[i].Name, name)}
    IN  IF hits = {} THEN Len(vs) + 1
        ELSE CHOOSE i \in hits : \A j \in hits : i <= j

\* Mutant of cacheAdd: the entry is appended whether or not its name is held.
cacheAddAppends(vs, c) == sortByName(Append(vs, c))

\* clusterCache.Add (and the same method of the other caches), on the
\* contents of the cache.
cacheAdd(vs, c) ==
    LET sorted == sortByName(vs)
        i == Search(sorted, c.Name)
    IN  IF i <= Len(sorted) /\ sorted[i].Name = c.Name
        THEN [sorted EXCEPT ![i] = c]
        ELSE sortByName(Append(sorted, c))

\* clusterCache.Remove
cacheRemove(vs, name) ==
    LET sorted == sortByName(vs)
        i == Search(sorted, name)
    IN  IF i <= Len(sorted) /\ sorted[i].Name = name
        THEN SubSeq(sorted, 1, i - 1) \o SubSeq(sorted, i + 1, Len(sorted))
        ELSE sorted

\* strings.Join(s, "/")
RECURSIVE Join(_)
Join(s) ==
    IF s = <<>> THEN ""
    ELSE IF Len(s) = 1 THEN s[1]
    ELSE s[1] \o "/" \o Join(Tail(s))

\* Mutant of min: the first argument, whatever the second.
minFirst(a, b) == a

min(a, b) == IF a > b THEN b ELSE a

HexDigits == "0123456789abcdef"

\* A number that the bytes lo .. hi of r, and their places, determine.
RECURSIVE Mix(_, _, _)
Mix(r, lo, hi) ==
    IF lo > hi THEN 7
    ELSE IF lo = hi THEN (ByteRank[SubSeq(r, lo, lo)] * (lo + 3)) % 65521
    ELSE LET mid == (lo + hi) \div 2
         IN  (Mix(r, lo, mid) * 31 + Mix(r, mid + 1, hi) * 17 + hi) % 65521

\* The hexadecimal digits lo .. hi of the stand-in for a digest.
RECURSIVE HexFrom(_, _, _)
HexFrom(seed, lo, hi) ==
    IF lo = hi
    THEN LET d == ((seed + 1) * (lo + 7) + (seed \div 16) * lo * lo
                    + (seed \div 256) * (lo \div 3)) % 16
         IN  SubSeq(HexDigits, d + 1, d + 1)
    ELSE LET mid == (lo + hi) \div 2
         IN  HexFrom(seed, lo, mid) \o HexFrom(seed, mid + 1, hi)

\* fmt.Sprintf("%x", sha256.Sum256([]byte(r))): 64 hexadecimal digits that
\* r alone determines. The digest itself is replaced by a weaker mixing
\* function of the bytes of r.
Sum256Hex(r) == HexFrom(Mix(r, 1, Len(r)), 1, 64)

\* the number of digits of the hash that follow a truncated element
shorthash == 6

\* truncate(l, s, suffix)
truncate(l, s, suffix) ==
    IF l >= Len(s) THEN s
    ELSE IF l <= Len(suffix) THEN SubSeq(suffix, 1, min(l, Len(suffix)))
    ELSE SubSeq(s, 1, l - Len(suffix) - 1) \o "-" \o suffix

\* The loop of hashname, about to handle element n (counted from 1): the
\* elements are truncated from the last to the first until the name fits.
RECURSIVE hashnameLoop(_, _, _, _)
hashnameLoop(l, s, hash, n) ==
    IF n < 1 THEN SubSeq(hash, 1, min(Len(hash), l))
    ELSE LET t == [s EXCEPT ![n] = truncate(l \div Len(s), s[n], SubSeq(hash, 1, shorthash))]
             r == Join(t)
         IN  IF l > Len(r) THEN r ELSE hashnameLoop(l, t, hash, n - 1)

\* hashname(l, s...): the elements joined by "/" when that is shorter than
\* l, and otherwise elements truncated and marked with the hash.
hashname(l, s) ==
    LET r == Join(s)
    IN  IF l > Len(r) THEN r
        ELSE hashnameLoop(l, s, Sum256Hex(r), Len(s))

\* The slice s of hashname when it returns: the elements its loop has
\* overwritten with their truncations.
RECURSIVE hashnameSliceLoop(_, _, _, _)
hashnameSliceLoop(l, s, hash, n) ==
    IF n < 1 THEN s
    ELSE LET t == [s EXCEPT ![n] = truncate(l \div Len(s), s[n], SubSeq(hash, 1, shorthash))]
         IN  IF l > Len(Join(t)) THEN t ELSE hashnameSliceLoop(l, t, hash, n - 1)

hashnameSlice(l, s) ==
    IF l > Len(Join(s)) THEN s
    ELSE hashnameSliceLoop(l, s, Sum256Hex(Join(s)), Len(s))

\* intstr.FromInt(n) and intstr.FromString(s): the two forms of a port
FromInt(n) == [Type |-> "Int", IntVal |-> n, StrVal |-> ""]

FromString(str) == [Type |-> "String", IntVal |-> 0, StrVal |-> str]

\* IntOrString.String()
IntOrStringString(x) ==
    IF x.Type = "String" THEN x.StrVal ELSE FormatInt(x.IntVal)

NoBackend == [ServiceName |-> "", ServicePort |-> FromInt(0)]

Meta == [Name |-> "kuard", Namespace |-> "default"]

Object(kind) ==
    [kind |-> kind, annotated |-> FALSE, class |-> "", ObjectMeta |-> Meta,
     Ports |-> <<>>, Subsets |-> <<>>, Backend |-> NoBackend, Rules |-> <<>>]

Backend80 == [ServiceName |-> "kuard", ServicePort |-> FromInt(80)]

\* The versions of the objects default/kuard the informers report.
Services ==
    { [Object("Service") EXCEPT !.Ports =
          <<[Name |-> "http", Port |-> 80, Protocol |-> "TCP", TargetPort |-> FromInt(8080)]>>],
      [Object("Service") EXCEPT !.Ports =
          <<[Name |-> "", Port |-> 80, Protocol |-> "TCP", TargetPort |-> FromInt(8080)]>>],
      [Object("Service") EXCEPT !.Ports =
          <<[Name |-> "", Port |-> 80, Protocol |-> "UDP", TargetPort |-> FromInt(8080)]>>] }

EndpointsObjects ==
    { [Object("Endpoints") EXCEPT !.Subsets =
          <<[Ports |-> <<[Name |-> "", Port |-> 8080]>>, Addresses |-> <<"10.0.0.1">>]>>],
      [Object("Endpoints") EXCEPT !.Subsets =
          <<[Ports |-> <<[Name |-> "", Port |-> 8080]>>, Addresses |-> <<>>]>>] }

Ingresses ==
    { [Object("Ingress") EXCEPT !.Backend = Backend80],
      [Object("Ingress") EXCEPT !.Rules =
          <<[Host |-> "", HTTP |-> <<[Backend |-> Backend80, Path |-> "/testing"]>>]>>],
      [Object("Ingress") EXCEPT !.annotated = TRUE, !.class = "nginx",
                                !.Backend = Backend80] }

Kinds == {"Service", "Endpoints", "Ingress"}

TrObjects == Services \cup EndpointsObjects \cup Ingresses

Absent == Object("none")

\* The three caches of a Translator.
Caches(t) ==
    [ClusterCache |-> t.ClusterCache,
     ClusterLoadAssignmentCache |-> t.ClusterLoadAssignmentCache,
     VirtualHostCache |-> t.VirtualHostCache]

RECURSIVE addPorts(_, _, _)
addPorts(t, svc, n) ==
    IF n > Len(svc.Ports) THEN t
    ELSE LET p == svc.Ports[n]
             ns == svc.ObjectMeta.Namespace
             name == svc.ObjectMeta.Name
             ServiceName == ns \o "/" \o name \o "/" \o IntOrStringString(p.TargetPort)
             named == IF p.Name # ""
                      THEN [t EXCEPT !.ClusterCache =
                               cacheAdd(@, [Name |-> hashname(60, <<ns, name, p.Name>>),
                                            ServiceName |-> ServiceName])]
                      ELSE t
             numbered == [named EXCEPT !.ClusterCache =
                             cacheAdd(@, [Name |-> hashname(60, <<ns, name, FormatInt(p.Port)>>),
                                          ServiceName |-> ServiceName])]
         IN  addPorts(IF p.Protocol = "TCP" THEN numbered ELSE t, svc, n + 1)

addService(t, svc) == addPorts(t, svc, 1)

RECURSIVE removePorts(_, _, _)
removePorts(t, svc, n) ==
    IF n > Len(svc.Ports) THEN t
    ELSE LET p == svc.Ports[n]
             ns == svc.ObjectMeta.Namespace
             name == svc.ObjectMeta.Name
             named == IF p.Name # ""
                      THEN [t EXCEPT !.ClusterCache =
                               cacheRemove(@, hashname(60, <<ns, name, p.Name>>))]
                      ELSE t
             numbered == [named EXCEPT !.ClusterCache =
                             cacheRemove(@, hashname(60, <<ns, name, FormatInt(p.Port)>>))]
         IN  removePorts(IF p.Protocol = "TCP" THEN numbered ELSE t, svc, n + 1)

removeService(t, svc) == removePorts(t, svc, 1)

\* The LbEndpoints of one port: one per address, in order.
LbEndpoints(s, p) == [i \in DOMAIN s.Addresses |-> [Address |-> s.Addresses[i], PortValue |-> p.Port]]

RECURSIVE addSubsetPorts(_, _, _, _)
addSubsetPorts(t, e, s, n) ==
    IF n > Len(s.Ports) THEN t
    ELSE LET p == s.Ports[n]
             cla == [Name |-> hashname(60, <<e.ObjectMeta.Namespace, e.ObjectMeta.Name,
                                             FormatInt(p.Port)>>),
                     LbEndpoints |-> LbEndpoints(s, p)]
         IN  addSubsetPorts([t EXCEPT !.ClusterLoadAssignmentCache = cacheAdd(@, cla)],
                            e, s, n + 1)

RECURSIVE addSubsets(_, _, _)
addSubsets(t, e, n) ==
    IF n > Len(e.Subsets) THEN t
    ELSE LET s == e.Subsets[n]
         IN  addSubsets(IF Len(s.Addresses) = 0 \/ Len(s.Ports) = 0
                        THEN t
                        ELSE addSubsetPorts(t, e, s, 1),
                        e, n + 1)

addEndpoints(t, e) == addSubsets(t, e, 1)

RECURSIVE removeSubsetPorts(_, _, _, _)
removeSubsetPorts(t, e, s, n) ==
    IF n > Len(s.Ports) THEN t
    ELSE LET p == s.Ports[n]
             ns == e.ObjectMeta.Namespace
             name == e.ObjectMeta.Name
             named == IF p.Name # ""
                      THEN [t EXCEPT !.ClusterLoadAssignmentCache =
                               cacheRemove(@, hashname(60, <<ns, name, p.Name>>))]
                      ELSE t
         IN  removeSubsetPorts(
                 [named EXCEPT !.ClusterLoadAssignmentCache =
                     cacheRemove(@, hashname(60, <<ns, name, FormatInt(p.Port)>>))],
                 e, s, n + 1)

RECURSIVE removeSubsets(_, _, _)
removeSubsets(t, e, n) ==
    IF n > Len(e.Subsets) THEN t
    ELSE removeSubsets(removeSubsetPorts(t, e, e.Subsets[n], 1), e, n + 1)

removeEndpoints(t, e) == removeSubsets(t, e, 1)

\* ingressBackendToClusterName(i, b)
\* Mutant of ingressBackendToClusterName: the joined name as it is.
ingressBackendToClusterNameJoined(i, b) ==
    Join(<<i.ObjectMeta.Namespace, b.ServiceName, IntOrStringString(b.ServicePort)>>)

ingressBackendToClusterName(i, b) ==
    hashname(60, <<i.ObjectMeta.Namespace, b.ServiceName, IntOrStringString(b.ServicePort)>>)

\* The routes of one rule: pathToRouteMatch and clusteraction of each path
\* (the paths of the model hold no regex characters).
Routes(i, paths) ==
    [k \in DOMAIN paths |->
        [Match |-> IF paths[k].Path = "" THEN "/" ELSE paths[k].Path,
         Action |-> ingressBackendToClusterName(i, paths[k].Backend)]]

RECURSIVE addRules(_, _, _)
addRules(t, i, n) ==
    IF n > Len(i.Rules) THEN t
    ELSE LET rule == i.Rules[n]
             v == [Name |-> hashname(60, <<i.ObjectMeta.Namespace, i.ObjectMeta.Name, rule.Host>>),
                   Domains |-> <<rule.Host>>,
                   Routes |-> Routes(i, rule.HTTP)]
         IN  addRules([t EXCEPT !.VirtualHostCache = cacheAdd(@, v)], i, n + 1)

addIngress(t, i) ==
    IF i.annotated /\ i.class # "contour" THEN t
    ELSE IF i.Backend # NoBackend
    THEN [t EXCEPT !.VirtualHostCache =
             cacheAdd(@, [Name |-> hashname(60, <<i.ObjectMeta.Namespace, i.ObjectMeta.Name>>),
                          Domains |-> <<"*">>,
                          Routes |-> <<[Match |-> "/",
                                        Action |-> ingressBackendToClusterName(i, i.Backend)]>>])]
    ELSE addRules(t, i, 1)

RECURSIVE removeRules(_, _, _)
removeRules(t, i, n) ==
    IF n > Len(i.Rules) THEN t
    ELSE removeRules(
             [t EXCEPT !.VirtualHostCache =
                 cacheRemove(@, hashname(60, <<i.ObjectMeta.Namespace, i.ObjectMeta.Name,
                                               i.Rules[n].Host>>))],
             i, n + 1)

removeIngress(t, i) ==
    IF i.Backend # NoBackend
    THEN [t EXCEPT !.VirtualHostCache =
             cacheRemove(@, hashname(60, <<i.ObjectMeta.Namespace, i.ObjectMeta.Name>>))]
    ELSE removeRules(t, i, 1)

\* Translator.OnAdd(obj)
trOnAdd(t, obj) ==
    CASE obj.kind = "Service" -> addService(t, obj)
      [] obj.kind = "Endpoints" -> addEndpoints(t, obj)
      [] obj.kind = "Ingress" -> addIngress(t, obj)
      [] OTHER -> t

\* Translator.OnDelete(obj)
trOnDelete(t, obj) ==
    CASE obj.kind = "Service" -> removeService(t, obj)
      [] obj.kind = "Endpoints" -> removeEndpoints(t, obj)
      [] obj.kind = "Ingress" -> removeIngress(t, obj)
      [] OTHER -> t

\* Translator.OnUpdate(oldObj, newObj)
trOnUpdate(t, oldObj, newObj) ==
    CASE newObj.kind = "Service" -> addService(t, newObj)
      [] newObj.kind = "Endpoints" -> addEndpoints(t, newObj)
      [] newObj.kind = "Ingress" -> addIngress(t, newObj)
      [] OTHER -> t

NoneBefore == [op |-> "none", fresh |-> FALSE]

\* A call of the Translator returns, leaving the caches of t. The informer
\* holds obj for its kind afterwards (Absent after a delete). The Translator
\* keeps no history; call and before record the last call and what the
\* caches held when it was made:
\*   fresh     the informer held no object of the kind when the call was made
\*   follows   the call before this one, when it was made on the same object
trReturned(t, op, oldObj, obj, held) ==
    /\ tr' = [t EXCEPT !.objects = [@ EXCEPT ![obj.kind] = held],
                       !.call = [op |-> op, old |-> oldObj, obj |-> obj,
                                 fresh |-> tr.objects[obj.kind] = Absent,
                                 follows |-> IF tr.call.obj = obj
                                             THEN [op |-> tr.call.op, fresh |-> tr.call.fresh]
                                             ELSE NoneBefore],
                       !.before = Caches(tr)]
    /\ UNCHANGED <<values, cond, mu, events, strm, fetched, reh, cc, rds, vh, pf, ad>>

\* The informer reports a new object, or reports again the one it holds.
TranslatorOnAdd(obj) ==
    /\ tr.objects[obj.kind] \in {Absent, obj}
    /\ trReturned(trOnAdd(tr, obj), "OnAdd", obj, obj, obj)

\* The informer reports that the object it holds changed.
TranslatorOnUpdate(oldObj, newObj) ==
    /\ oldObj.kind = newObj.kind
    /\ tr.objects[oldObj.kind] = oldObj
    /\ trReturned(trOnUpdate(tr, oldObj, newObj), "OnUpdate", oldObj, newObj, newObj)

\* The informer reports that the object it holds is gone.
TranslatorOnDelete(obj) ==
    /\ tr.objects[obj.kind] = obj
    /\ trReturned(trOnDelete(tr, obj), "OnDelete", obj, obj, Absent)

NoCaches ==
    [ClusterCache |-> <<>>, ClusterLoadAssignmentCache |-> <<>>,
     VirtualHostCache |-> <<>>]

NoCall ==
    [op |-> "none", old |-> Absent, obj |-> Absent, fresh |-> FALSE,
     follows |-> NoneBefore]

\* NewTranslator: three empty caches; no stream is connected.
trInit ==
    /\ values = [t \in Types |-> {}]
    /\ cond = [t \in Types |-> [last |-> 0, waiters |-> <<>>]]
    /\ mu = [t \in Types |-> "free"]
    /\ events = 0
    /\ strm = [s \in Streams |-> Return(NewStream(<<"stream", "CDS">>))]
    /\ fetched = NoFetch
    /\ tr = [ClusterCache |-> <<>>, ClusterLoadAssignmentCache |-> <<>>,
             VirtualHostCache |-> <<>>,
             objects |-> [k \in Kinds |-> Absent],
             call |-> NoCall, before |-> NoCaches]
    /\ reh = Idle /\ cc = Idle
    /\ rds = Idle /\ vh = Idle /\ pf = Idle /\ ad = Idle

trNext ==
    \/ \E obj \in TrObjects : TranslatorOnAdd(obj) \/ TranslatorOnDelete(obj)
    \/ \E oldObj \in TrObjects, newObj \in TrObjects : TranslatorOnUpdate(oldObj, newObj)

trSpec == trInit /\ [][trNext]_vars

\* ---------------------------------------------------------- the clusterCache

\* One clusterCache (the other three caches are the same code over another
\* element type) at the level of its mutex and of the memory behind its
\* slice: a writer calls Add and Remove, readers call Values and keep what
\* it returned.

Readers == {1, 2}

\* The entries the writer adds: two names, and two payloads under one of
\* them.
Entries ==
    { [Name |-> "default/kuard/80", v |-> 1],
      [Name |-> "default/kuard/80", v |-> 2],
      [Name |-> "default/kuard/http", v |-> 1] }

\* A cell no entry was stored in.
Nil == [Name |-> "", v |-> 0]

\* The backing arrays the heap can hold at a time: one per slice that is
\* held, and the one an append allocates before the old one is let go. A
\* slice is the array it points into and its length, its capacity the length
\* of the array. The nil slice points nowhere.
ArrayIds == 1 .. Cardinality(Readers) + 2

FreeArray == [used |-> FALSE, cells |-> <<>>]

NilSlice == [arr |-> 0, len |-> 0]

cap(heap, sl) == IF sl.arr = 0 THEN 0 ELSE Len(heap[sl.arr].cells)

\* s[0:len(s)] as a sequence
Cells(heap, sl) == IF sl.len = 0 THEN <<>> ELSE SubSeq(heap[sl.arr].cells, 1, sl.len)

\* The elements of the slice are overwritten in place.
Store(heap, sl, vs) ==
    IF sl.arr = 0 THEN heap
    ELSE [heap EXCEPT ![sl.arr].cells =
             [k \in DOMAIN @ |-> IF k <= Len(vs) THEN vs[k] ELSE @[k]]]

\* A new array of n cells holding vs: the heap with it and the slice over vs.
make(heap, vs, n) ==
    LET id == CHOOSE a \in ArrayIds :
                  ~heap[a].used /\ \A b \in ArrayIds : ~heap[b].used => a <= b
    IN  [heap |-> [heap EXCEPT ![id] =
                      [used |-> TRUE,
                       cells |-> [k \in 1 .. n |-> IF k <= Len(vs) THEN vs[k] ELSE Nil]]],
         sl |-> [arr |-> id, len |-> Len(vs)]]

\* append(s, e): in place when the capacity allows, into a new array of
\* twice the capacity otherwise.
append(heap, sl, e) ==
    IF sl.len < cap(heap, sl)
    THEN [heap |-> [heap EXCEPT ![sl.arr].cells[sl.len + 1] = e],
          sl |-> [sl EXCEPT !.len = @ + 1]]
    ELSE make(heap, Append(Cells(heap, sl), e),
              IF cap(heap, sl) = 0 THEN 1 ELSE 2 * cap(heap, sl))

\* The garbage collector: an array that no slice points into is freed.
Collect(c) ==
    LET roots == {c.values.arr} \cup {c.rd[r].snap.arr : r \in Readers}
    IN  [c EXCEPT !.heap = [a \in ArrayIds |-> IF a \in roots THEN @[a] ELSE FreeArray]]

\* Mutant of valuesCopy: Values returns cc.values itself.
valuesAlias(c) == [heap |-> c.heap, sl |-> c.values]

\* r := append([]*v2.Cluster{}, cc.values...)
valuesCopy(c) ==
    IF c.values.len = 0
    THEN [heap |-> c.heap, sl |-> NilSlice]
    ELSE make(c.heap, Cells(c.heap, c.values), c.values.len)

\* Mutant of restore: the appended entry stays where append put it.
restoreNothing(vs) == vs

\* sort.Sort(clusterByName(cc.values)) after the append:
\* "restort to convert append into insert"
restore(vs) == sortByName(vs)

\* cc.Lock(); sort.Sort(clusterByName(cc.values)); i := sort.Search(...)
\* in Add(e) and in Remove(e.Name).
ccLock(op, e) ==
    LET sorted == sortByName(Cells(cc.heap, cc.values))
        i == Search(sorted, e.Name)
    IN  /\ cc.mu = 0
        /\ cc.w.pc = "idle"
        /\ op = "Remove" => e.v = 1
        /\ cc' = [cc EXCEPT !.mu = 3,
                            !.heap = Store(@, cc.values, sorted),
                            !.w = [pc |-> "locked", op |-> op, e |-> e, i |-> i,
                                   found |-> i <= Len(sorted) /\ sorted[i].Name = e.Name]]
        /\ UNCHANGED <<values, cond, mu, events, strm, fetched, reh, tr, rds, vh, pf, ad>>

\* The branch the writer takes: cc.values[i] = c, or
\* cc.values = append(cc.values, c), or the copy that
\* append(cc.values[:i], cc.values[i+1:]...) makes within the array.
ccWrite ==
    LET w == cc.w
        vs == Cells(cc.heap, cc.values)
        grown == append(cc.heap, cc.values, w.e)
    IN  /\ w.pc = "locked"
        /\ cc' = CASE w.op = "Add" /\ w.found ->
                        [cc EXCEPT !.heap[cc.values.arr].cells[w.i] = w.e,
                                   !.w.pc = "written"]
                   [] w.op = "Add" /\ ~w.found ->
                        Collect([cc EXCEPT !.heap = grown.heap, !.values = grown.sl,
                                           !.w.pc = "written"])
                   [] w.op = "Remove" /\ w.found ->
                        [cc EXCEPT !.heap = Store(@, cc.values,
                                                  SubSeq(vs, 1, w.i - 1) \o
                                                  SubSeq(vs, w.i + 1, Len(vs))),
                                   !.w.pc = "written"]
                   [] OTHER -> [cc EXCEPT !.w.pc = "written"]
        /\ UNCHANGED <<values, cond, mu, events, strm, fetched, reh, tr, rds, vh, pf, ad>>

\* The branch ends (the appended entry is sorted into place, the shortened
\* slice is assigned to cc.values) and the deferred cc.Unlock() runs. last
\* records the call and what the cache held before it.
ccUnlock ==
    LET w == cc.w
        vs == Cells(cc.heap, cc.values)
        done == CASE w.op = "Add" /\ ~w.found ->
                        [cc EXCEPT !.heap = Store(@, cc.values, restore(vs))]
                  [] w.op = "Remove" /\ w.found ->
                        [cc EXCEPT !.values.len = @ - 1]
                  [] OTHER -> cc
    IN  /\ w.pc = "written"
        /\ cc' = [done EXCEPT !.mu = 0,
                              !.w.pc = "idle",
                              !.held = Cells(done.heap, done.values),
                              !.last = [op |-> w.op, e |-> w.e, before |-> cc.held]]
        /\ UNCHANGED <<values, cond, mu, events, strm, fetched, reh, tr, rds, vh, pf, ad>>

\* Values(): cc.Lock()
ValuesLock(r) ==
    /\ cc.mu = 0
    /\ cc.rd[r].pc = "idle"
    /\ cc' = [cc EXCEPT !.mu = r, !.rd[r].pc = "locked"]
    /\ UNCHANGED <<values, cond, mu, events, strm, fetched, reh, tr, rds, vh, pf, ad>>

\* Values(): the copy is made, cc.Unlock(), return r; CDS.Values, through
\* which the stream handlers call it, sorts the slice it got with
\* sort.Stable(clusterByName(v)). at records what the cache held when the
\* copy was made: the result of the calls of Add and Remove that had returned
\* by then.
ValuesReturn(r) ==
    LET v == valuesCopy(cc)
    IN  /\ cc.rd[r].pc = "locked"
        /\ cc' = [cc EXCEPT !.heap = Store(v.heap, v.sl, sortByName(Cells(v.heap, v.sl))),
                            !.mu = 0,
                            !.rd[r] = [pc |-> "has", snap |-> v.sl, at |-> cc.held]]
        /\ UNCHANGED <<values, cond, mu, events, strm, fetched, reh, tr, rds, vh, pf, ad>>

\* The reader drops the slice Values returned.
Release(r) ==
    /\ cc.rd[r].pc = "has"
    /\ cc' = Collect([cc EXCEPT !.rd[r] = [pc |-> "idle", snap |-> NilSlice, at |-> <<>>]])
    /\ UNCHANGED <<values, cond, mu, events, strm, fetched, reh, tr, rds, vh, pf, ad>>

\* An empty cache: var values []*v2.Cluster
ccInit ==
    /\ values = [t \in Types |-> {}]
    /\ cond = [t \in Types |-> [last |-> 0, waiters |-> <<>>]]
    /\ mu = [t \in Types |-> "free"]
    /\ events = 0
    /\ strm = [s \in Streams |-> Return(NewStream(<<"stream", "CDS">>))]
    /\ fetched = NoFetch
    /\ reh = Idle /\ tr = Idle
    /\ rds = Idle /\ vh = Idle /\ pf = Idle /\ ad = Idle
    /\ cc = [heap |-> [a \in ArrayIds |-> FreeArray],
             values |-> NilSlice,
             mu |-> 0,
             w |-> [pc |-> "idle", op |-> "none", e |-> Nil, i |-> 0, found |-> FALSE],
             rd |-> [r \in Readers |-> [pc |-> "idle", snap |-> NilSlice, at |-> <<>>]],
             held |-> <<>>,
             last |-> [op |-> "none", e |-> Nil, before |-> <<>>]]

ccNext ==
    \/ \E e \in Entries : ccLock("Add", e) \/ ccLock("Remove", e)
    \/ ccWrite
    \/ ccUnlock
    \/ \E r \in Readers : ValuesLock(r) \/ ValuesReturn(r) \/ Release(r)

ccSpec == ccInit /\ [][ccNext]_vars

\* ------------------------------------------------------ the RDS responses

\* The hosts of the virtual hosts in the route caches.
Hosts == {"*", "a.example.com", "b.example.com"}

\* virtualhost(hostname), holding one route.
VirtualHosts ==
    { [Name |-> h, Domains |-> <<h>>,
       Routes |-> << [Match |-> "/", Action |-> "default/kuard/80"] >>] : h \in Hosts }

\* The two virtualHostCaches of the VirtualHostCache.
Sides == {"HTTP", "HTTPS"}

RouteConfiguration(name, virtualhosts) ==
    [Name |-> name, VirtualHosts |-> virtualhosts]

\* virtualHostCache.Values(): a copy of the contents.
vcValues(vc) == vc

\* toRouteVirtualHosts of RDS.Values: the virtual hosts copied and put in
\* the order of their names by sort.Stable(virtualHostsByName(r)).
toRouteVirtualHosts(ms) == sortByName(ms)

\* RDS.Values of resources.go: always both route configurations.
rdsValues(r) ==
    << RouteConfiguration("ingress_http", toRouteVirtualHosts(vcValues(r.HTTP))),
       RouteConfiguration("ingress_https", toRouteVirtualHosts(vcValues(r.HTTPS))) >>

\* RDS.Resources of grpc.go: one route configuration over the values of the
\* one VirtualHostCache.
rdsResources(r) ==
    << RouteConfiguration("ingress_http", vcValues(r.HTTP)) >>

\* A call that built the response resp, or failed with err.
rdsAnswer(by, resp, err) ==
    /\ rds' = [rds EXCEPT !.resp = resp, !.by = by, !.err = err]
    /\ UNCHANGED <<values, cond, mu, events, strm, fetched, reh, tr, cc, vh, pf, ad>>

\* virtualHostCache.Add and Remove on one of the two caches.
rdsAdd(side, v) ==
    /\ rds' = [rds EXCEPT ![side] = cacheAdd(@, v)]
    /\ UNCHANGED <<values, cond, mu, events, strm, fetched, reh, tr, cc, vh, pf, ad>>

rdsRemove(side, name) ==
    /\ rds' = [rds EXCEPT ![side] = cacheRemove(@, name)]
    /\ UNCHANGED <<values, cond, mu, events, strm, fetched, reh, tr, cc, vh, pf, ad>>

\* Fetch and a stream's response of the server of part_004, whose routeType
\* resource is RDS{HTTP, HTTPS, Cond}: Resources marshals Values().
FetchResources == rdsAnswer("resources.go Fetch", rdsValues(rds), "nil")

StreamResources == rdsAnswer("resources.go Stream", rdsValues(rds), "nil")

\* FetchRoutes and StreamRoutes of grpc.go: fetch and stream over
\* RDS.Resources.
FetchRoutes == rdsAnswer("grpc.go FetchRoutes", rdsResources(rds), "nil")

StreamRoutes == rdsAnswer("grpc.go StreamRoutes", rdsResources(rds), "nil")

\* RDS.FetchRoutes of part_003: no response.
FetchRoutesUnimplemented ==
    rdsAnswer("part_003 FetchRoutes", <<>>, "FetchRoutes Unimplemented")

\* RDS.StreamRoutes of part_003: one route configuration per response.
StreamRoutesLoop ==
    rdsAnswer("part_003 StreamRoutes",
              << RouteConfiguration("ingress_http", vcValues(rds.HTTP)) >>, "nil")

rdsInit ==
    /\ values = [t \in Types |-> {}]
    /\ cond = [t \in Types |-> [last |-> 0, waiters |-> <<>>]]
    /\ mu = [t \in Types |-> "free"]
    /\ events = 0
    /\ strm = [s \in Streams |-> Return(NewStream(<<"stream", "CDS">>))]
    /\ fetched = NoFetch
    /\ reh = Idle /\ tr = Idle /\ cc = Idle
    /\ vh = Idle /\ pf = Idle /\ ad = Idle
    /\ rds = [HTTP |-> <<>>, HTTPS |-> <<>>, resp |-> <<>>, by |-> "none", err |-> "nil"]

rdsNext ==
    \/ \E side \in Sides, v \in VirtualHosts : rdsAdd(side, v)
    \/ \E side \in Sides, h \in Hosts : rdsRemove(side, h)
    \/ FetchResources
    \/ StreamResources
    \/ FetchRoutes
    \/ StreamRoutes
    \/ FetchRoutesUnimplemented
    \/ StreamRoutesLoop

rdsSpec == rdsInit /\ [][rdsNext]_vars

\* ---------------------------------------------------- the pure functions

\* The most routes one virtual host is given.
MaxRoutes == 3

\* prefixmatch(prefix) and regexmatch(regex)
prefixmatch(prefix) == [Prefix |-> prefix, Regex |-> ""]

regexmatch(regex) == [Prefix |-> "", Regex |-> regex]

\* clusteraction(cluster): no timeout is set.
clusteraction(cluster) == [Cluster |-> cluster, Timeout |-> <<>>]

\* Mutant of clusteractiontimeout: a timeout of zero is left unset.
clusteractiontimeoutSkipsZero(cluster, timeout) ==
    IF timeout = 0 THEN clusteraction(cluster)
    ELSE [clusteraction(cluster) EXCEPT !.Timeout = <<timeout>>]

\* clusteractiontimeout(cluster, timeout): c.Route.Timeout = &timeout
clusteractiontimeout(cluster, timeout) ==
    [clusteraction(cluster) EXCEPT !.Timeout = <<timeout>>]

\* Matches of routes: prefixes of several lengths, and a regular expression.
Matches ==
    { prefixmatch(p) : p \in {"/", "/a", "/b", "/aa"} } \cup { regexmatch("/.*") }

\* The routes of a virtual host in every order in which they can have been
\* produced, no two with the same match.
RouteLists ==
    UNION { { l \in [1 .. n -> { [Match |-> m, Action |-> clusteraction("default/kuard/80")]
                                  : m \in Matches }] :
                \A i \in 1 .. n : \A j \in 1 .. n : i # j => l[i] # l[j] }
            : n \in 0 .. MaxRoutes }

\* longestRouteFirst.Less(i, j)
longestRouteFirstLess(l, i, j) ==
    IF l[i].Match.Regex # "" THEN FALSE
    ELSE IF l[j].Match.Regex # "" THEN FALSE
    ELSE NameLess(l[i].Match.Prefix, l[j].Match.Prefix)

\* Mutant of reverseLess: the order is not reversed.
forwardLess(l, i, j) == longestRouteFirstLess(l, i, j)

\* sort.Reverse(longestRouteFirst(l)).Less(i, j)
reverseLess(l, i, j) == longestRouteFirstLess(l, j, i)

\* The inner loop of the insertion sort that sort.Stable runs on a slice of
\* at most 20 elements: element j moves down while it is less than the one
\* before it.
RECURSIVE insertDown(_, _)
insertDown(l, j) ==
    IF j > 1 /\ reverseLess(l, j, j - 1)
    THEN insertDown([l EXCEPT ![j] = l[j - 1], ![j - 1] = l[j]], j - 1)
    ELSE l

RECURSIVE insertionSort(_, _)
insertionSort(l, i) ==
    IF i > Len(l) THEN l ELSE insertionSort(insertDown(l, i), i + 1)

\* sort.Stable(sort.Reverse(longestRouteFirst(routes)))
sortRoutes(l) == insertionSort(l, 2)

\* actionroute(namespace, name, port, ...): the name of the cluster of the
\* route's action.
actionrouteCluster(namespace, name, port) ==
    hashname(60, <<namespace, name, FormatInt(port)>>)

\* actionroute(namespace, name, port, ws, timeout): a timeout of 0 leaves
\* the field unset, -1 sets it to zero, any other is set as it is.
actionroute(namespace, name, port, ws, timeout) ==
    [Cluster |-> actionrouteCluster(namespace, name, port),
     Timeout |-> CASE timeout = 0 -> <<>>
                   [] timeout = -1 -> <<0>>
                   [] OTHER -> <<timeout>>,
     UseWebsocket |-> IF ws THEN <<TRUE>> ELSE <<>>]

\* Names of namespaces, services and ports, short and long.
Namespaces == {"default", "a-namespace-with-a-name-of-forty-letters"}

ServiceNames == {"kuard", "a-service-with-a-name-of-forty-letters-x",
                 "a-service-with-a-name-of-more-than-sixty-letters-that-goes-on-and-on"}

PortNames == {"", "http", "a-port-of-twenty-five-let"}

PortNumbers == {80, 8080}

\* The Service namespace/name with the one TCP port port.
ServiceOf(namespace, name, port) ==
    [Object("Service") EXCEPT
        !.ObjectMeta = [Name |-> name, Namespace |-> namespace],
        !.Ports = <<[Name |-> port.Name, Port |-> port.Port, Protocol |-> "TCP",
                     TargetPort |-> FromInt(8080)]>>]

\* An Ingress of the namespace.
IngressOf(namespace) ==
    [Object("Ingress") EXCEPT !.ObjectMeta = [Name |-> "ingress", Namespace |-> namespace]]

\* The names of the clusters addService emits for the Service, and the
\* cluster names the routes to its port carry: by the name and by the number
\* of the port from an Ingress backend, and by the number from actionroute.
clusterNames(namespace, name, port) ==
    [actionroute |-> actionrouteCluster(namespace, name, port.Port),
     emitted |-> addService(NoCaches, ServiceOf(namespace, name, port)).ClusterCache,
     byName |-> ingressBackendToClusterName(IngressOf(namespace),
                    [ServiceName |-> name, ServicePort |-> FromString(port.Name)]),
     byNumber |-> ingressBackendToClusterName(IngressOf(namespace),
                    [ServiceName |-> name, ServicePort |-> FromInt(port.Port)])]

\* The call fn(args) returned result.
pfReturned(fn, args, result) ==
    /\ pf' = [fn |-> fn, args |-> args, result |-> result]
    /\ UNCHANGED <<values, cond, mu, events, strm, fetched, reh, tr, cc, rds, vh, ad>>

\* The routes of a virtual host are sorted before it is added.
SortRoutes == \E l \in RouteLists : pfReturned("sortRoutes", l, sortRoutes(l))

\* A Service and the routes to it are translated.
ClusterNames ==
    \E namespace \in Namespaces, name \in ServiceNames,
       pname \in PortNames, pnumber \in PortNumbers :
        LET port == [Name |-> pname, Port |-> pnumber]
        IN  pfReturned("clusterNames", <<namespace, name, port>>,
                       clusterNames(namespace, name, port))

\* --------------------------------------- the VirtualHostCache of part_000

allowHTTP == "kubernetes.io/ingress.allow-http"

forceSSLRedirect == "ingress.kubernetes.io/force-ssl-redirect"

requestTimeout == "contour.heptio.com/request-timeout"

\* A timeout of zero: the proxy never times the request out.
infiniteTimeout == 0

\* annotations[key]: "" when the key is absent
Annotation(annotations, key) ==
    IF key \in DOMAIN annotations THEN annotations[key] ELSE ""

\* time.ParseDuration on the strings of the model, in nanoseconds: a decimal
\* with a unit is a duration, anything else an error.
ParseDuration(str) ==
    CASE str = "1s" -> [d |-> 1000000000, err |-> FALSE]
      [] str = "500ms" -> [d |-> 500000000, err |-> FALSE]
      [] str = "0s" -> [d |-> 0, err |-> FALSE]
      [] OTHER -> [d |-> 0, err |-> TRUE]

\* Mutant of getRequestTimeout: a value that does not parse counts as absent.
getRequestTimeoutDropsErrors(annotations) ==
    LET timeoutStr == Annotation(annotations, requestTimeout)
    IN  IF timeoutStr = "" THEN [timeout |-> 0, ok |-> FALSE]
        ELSE IF timeoutStr = "infinity" THEN [timeout |-> infiniteTimeout, ok |-> TRUE]
        ELSE IF ParseDuration(timeoutStr).err THEN [timeout |-> 0, ok |-> FALSE]
        ELSE [timeout |-> ParseDuration(timeoutStr).d, ok |-> TRUE]

\* getRequestTimeout(annotations)
getRequestTimeout(annotations) ==
    LET ok == requestTimeout \in DOMAIN annotations
        timeoutStr == Annotation(annotations, requestTimeout)
    IN  IF ~ok \/ timeoutStr = "" THEN [timeout |-> 0, ok |-> FALSE]
        ELSE IF timeoutStr = "infinity" THEN [timeout |-> infiniteTimeout, ok |-> TRUE]
        ELSE IF ParseDuration(timeoutStr).err THEN [timeout |-> infiniteTimeout, ok |-> TRUE]
        ELSE [timeout |-> ParseDuration(timeoutStr).d, ok |-> TRUE]

\* The action of a route of Ingress i to the backend b, as both loops of
\* recomputevhost build it.
routeAction(i, b) ==
    LET cl == ingressBackendToClusterName(i, b)
        t == getRequestTimeout(i.Annotations)
    IN  IF t.ok THEN clusteractiontimeout(cl, t.timeout) ELSE clusteraction(cl)

\* strings.IndexAny(path, chars) # -1, chars being the four bytes that make
\* a path a regular expression
HasRegexBytes(path) ==
    \E k \in 1 .. Len(path) : SubSeq(path, k, k) \in {"[", "(", "*", "\\"}

\* pathToRouteMatch(p)
pathToRouteMatch(p) ==
    IF p.Path = "" THEN prefixmatch("/")
    ELSE IF ~HasRegexBytes(p.Path) THEN prefixmatch(p.Path)
    ELSE regexmatch(p.Path)

\* virtualhost(hostname)
virtualhost(hostname) ==
    [Name |-> hashname(60, <<hostname>>), Routes |-> <<>>,
     Domains |-> <<hostname>>, RequireTls |-> "NONE"]

\* validTLSSpecforVhost(vhost, i)
validTLSSpecforVhost(vhost, i) ==
    \E k \in DOMAIN i.TLS :
        /\ i.TLS[k].SecretName # ""
        /\ \E h \in DOMAIN i.TLS[k].Hosts : i.TLS[k].Hosts[h] = vhost

\* The routes the paths of one rule give: one per path, in their order.
ruleRoutes(i, rule) ==
    [k \in DOMAIN rule.HTTP |->
        [Match |-> pathToRouteMatch(rule.HTTP[k]),
         Action |-> routeAction(i, rule.HTTP[k].Backend)]]

\* The loop over i.Spec.Rules from rule n on: the routes appended for the
\* vhost. A rule for another host is skipped; a rule whose HTTP is nil is
\* held as a rule without paths.
RECURSIVE rulesRoutes(_, _, _)
rulesRoutes(vhost, i, n) ==
    IF n > Len(i.Rules) THEN <<>>
    ELSE LET rule == i.Rules[n]
         IN  (IF rule.Host # "" /\ rule.Host # vhost THEN <<>> ELSE ruleRoutes(i, rule))
                 \o rulesRoutes(vhost, i, n + 1)

\* The first loop of recomputevhost, over the Ingresses in the order ings
\* from the n-th on: the routes of ingress_https.
RECURSIVE httpsRoutes(_, _, _)
httpsRoutes(vhost, ings, n) ==
    IF n > Len(ings) THEN <<>>
    ELSE (IF validTLSSpecforVhost(vhost, ings[n])
          THEN rulesRoutes(vhost, ings[n], 1)
          ELSE <<>>) \o httpsRoutes(vhost, ings, n + 1)

\* Mutant of httpLoop: the allow-http annotation is not looked at.
RECURSIVE httpLoopAllowsAll(_, _, _, _)
httpLoopAllowsAll(vhost, ings, n, vv) ==
    IF n > Len(ings) THEN vv
    ELSE LET i == ings[n]
         IN  IF i.Backend # NoBackend /\ Len(ings) = 1
             THEN httpLoopAllowsAll(vhost, ings, n + 1,
                      [vv EXCEPT !.Routes = << [Match |-> prefixmatch("/"),
                                                Action |-> routeAction(i, i.Backend)] >>])
             ELSE httpLoopAllowsAll(vhost, ings, n + 1,
                      [vv EXCEPT !.Routes = @ \o rulesRoutes(vhost, i, 1)])

\* The second loop of recomputevhost, from the n-th Ingress on, with the
\* ingress_http virtual host vv as built so far.
RECURSIVE httpLoop(_, _, _, _)
httpLoop(vhost, ings, n, vv) ==
    IF n > Len(ings) THEN vv
    ELSE LET i == ings[n]
             tls == IF Annotation(i.Annotations, forceSSLRedirect) = "true"
                    THEN [vv EXCEPT !.RequireTls = "ALL"]
                    ELSE vv
         IN  IF Annotation(i.Annotations, allowHTTP) = "false"
             THEN httpLoop(vhost, ings, n + 1, vv)
             ELSE IF i.Backend # NoBackend /\ Len(ings) = 1
             THEN httpLoop(vhost, ings, n + 1,
                      [tls EXCEPT !.Routes = << [Match |-> prefixmatch("/"),
                                                 Action |-> routeAction(i, i.Backend)] >>])
             ELSE httpLoop(vhost, ings, n + 1,
                      [tls EXCEPT !.Routes = @ \o rulesRoutes(vhost, i, 1)])

\* VirtualHostCache.recomputevhost(vhost, ingresses) on the caches v, the map
\* being ranged over in the order first by the first loop and in the order
\* second by the second.
recomputevhost(v, vhost, first, second) ==
    LET secure == [virtualhost(vhost) EXCEPT !.Routes = httpsRoutes(vhost, first, 1)]
        v1 == IF Len(secure.Routes) > 0
              THEN [v EXCEPT !.HTTPS = cacheAdd(@, [secure EXCEPT !.Routes = sortRoutes(@)])]
              ELSE [v EXCEPT !.HTTPS = cacheRemove(@, secure.Name)]
        plain == httpLoop(vhost, second, 1, virtualhost(vhost))
    IN  IF Len(plain.Routes) > 0
        THEN [v1 EXCEPT !.HTTP = cacheAdd(@, [plain EXCEPT !.Routes = sortRoutes(@)])]
        ELSE [v1 EXCEPT !.HTTP = cacheRemove(@, plain.Name)]

\* An Ingress of the namespace default.
IngressNamed(name, annotations, tls, backend, rules) ==
    [ObjectMeta |-> [Name |-> name, Namespace |-> "default"],
     Backend |-> backend, Rules |-> rules, Annotations |-> annotations, TLS |-> tls]

\* The rule of host for one path to kuard:80.
RuleFor(host, path) ==
    << [Host |-> host, HTTP |-> << [Backend |-> Backend80, Path |-> path] >>] >>

TLSFor(host) == << [Hosts |-> <<host>>, SecretName |-> "secret"] >>

\* The versions of the Ingresses the informer reports: kuard and second with
\* a default backend and no rules, kuard with and without a TLS entry for
\* a.example.com; simple, with a rule and a TLS entry for
\* a.example.com, with and without allow-http: "false"; timed, with a
\* rule for b.example.com and a request-timeout; and other, with a second
\* rule for a.example.com.
vhIngresses ==
    { IngressNamed("kuard", << >>, << >>, Backend80, << >>),
      IngressNamed("kuard", << >>, TLSFor("a.example.com"), Backend80, << >>),
      IngressNamed("second", << >>, << >>,
                   [ServiceName |-> "second", ServicePort |-> FromInt(80)], << >>),
      IngressNamed("simple", << >>, TLSFor("a.example.com"), NoBackend,
                   RuleFor("a.example.com", "")),
      IngressNamed("simple", [k \in {allowHTTP} |-> "false"], TLSFor("a.example.com"),
                   NoBackend, RuleFor("a.example.com", "")),
      IngressNamed("timed", [k \in {requestTimeout} |-> "infinity"], << >>, NoBackend,
                   RuleFor("b.example.com", "/a")),
      IngressNamed("other", << >>, << >>, NoBackend, RuleFor("a.example.com", "/b")) }

\* The states of the Secret default/secret in the object cache.
SecretStates == {"absent", "empty", "valid"}

ENVOY_HTTP_LISTENER == "ingress_http"

ENVOY_HTTPS_LISTENER == "ingress_https"

\* recomputeListener(ingresses) by the table of TestRecomputeListener: the
\* HTTP listener is removed for an empty map and added for an Ingress. What
\* it does when every Ingress has disabled HTTP the table does not say:
\* either.
recomputeListener(ingresses) ==
    IF ingresses = {} THEN {{}}
    ELSE IF \E i \in ingresses : Annotation(i.Annotations, allowHTTP) # "false"
    THEN {{ENVOY_HTTP_LISTENER}}
    ELSE {{}, {ENVOY_HTTP_LISTENER}}

\* recomputeTLSListener(ingresses, secrets) by the tables of
\* TestRecomputeTLSListener and TestListenerCacheRecomputeTLSListener: the
\* HTTPS listener is added when an Ingress has a TLS entry whose Secret is in
\* the map of Secrets, with or without Data, and removed otherwise.
recomputeTLSListener(ingresses, secret) ==
    IF \E i \in ingresses : \E k \in DOMAIN i.TLS :
           i.TLS[k].SecretName = "secret" /\ secret # "absent"
    THEN {ENVOY_HTTPS_LISTENER}
    ELSE {}

\* ListenerCache.recomputeListeners(ingresses, secrets): the listener caches
\* that can result.
recomputeListeners(ingresses, secret) ==
    { l \cup recomputeTLSListener(ingresses, secret) : l \in recomputeListener(ingresses) }

\* The hosts whose map of Ingresses holds i: "*" for a default backend and
\* for a rule without a host, and the host of every other rule.
vhostsOf(i) ==
    (IF i.Backend # NoBackend THEN {"*"} ELSE {})
        \cup { IF i.Rules[k].Host = "" THEN "*" ELSE i.Rules[k].Host : k \in DOMAIN i.Rules }

\* The orders in which a range over the set m can yield its elements.
Orders(m) ==
    { o \in [1 .. Cardinality(m) -> m] :
        \A a \in DOMAIN o : \A b \in DOMAIN o : a # b => o[a] # o[b] }

\* recomputevhost for each of the hosts, each with its map of Ingresses out
\* of ingresses; choose(h) gives the two orders of the ranges over the map
\* of h.
RECURSIVE recomputeAll(_, _, _, _)
recomputeAll(v, hosts, ingresses, choose) ==
    IF hosts = {} THEN v
    ELSE LET h == CHOOSE x \in hosts : TRUE
         IN  recomputeAll(recomputevhost(v, h, choose[h][1], choose[h][2]),
                          hosts \ {h}, ingresses, choose)

\* The Ingresses ingresses replace those held, and the hosts are recomputed.
vhReturned(op, old, obj, ingresses, hosts) ==
    /\ \E choose \in [hosts -> UNION { Orders({i \in ingresses : h \in vhostsOf(i)})
                                         \X Orders({i \in ingresses : h \in vhostsOf(i)})
                                         : h \in hosts }] :
          /\ \A h \in hosts :
                \A k \in 1 .. 2 :
                    choose[h][k] \in Orders({i \in ingresses : h \in vhostsOf(i)})
          /\ \E listeners \in recomputeListeners(ingresses, vh.secret) :
                vh' = [recomputeAll(vh, hosts, ingresses, choose) EXCEPT
                          !.ingresses = ingresses,
                          !.listeners = listeners,
                          !.call = [op |-> op, old |-> old, obj |-> obj]]
    /\ UNCHANGED <<values, cond, mu, events, strm, fetched, reh, tr, cc, rds, pf, ad>>

NoIngress == IngressNamed("", << >>, << >>, NoBackend, << >>)

\* An Ingress is added, updated, deleted.
vhOnAdd(i) ==
    /\ \A j \in vh.ingresses : j.ObjectMeta # i.ObjectMeta
    /\ vhReturned("OnAdd", NoIngress, i, vh.ingresses \cup {i}, vhostsOf(i))

vhOnUpdate(old, new) ==
    /\ old \in vh.ingresses
    /\ new.ObjectMeta = old.ObjectMeta /\ new # old
    /\ vhReturned("OnUpdate", old, new, (vh.ingresses \ {old}) \cup {new},
                  vhostsOf(old) \cup vhostsOf(new))

vhOnDelete(i) ==
    /\ i \in vh.ingresses
    /\ vhReturned("OnDelete", NoIngress, i, vh.ingresses \ {i}, vhostsOf(i))

\* The Secret default/secret is added, emptied, filled or deleted, and the
\* listeners are recomputed; recomputevhost takes no Secret, so no virtual
\* host changes.
vhSecret(state) ==
    /\ state # vh.secret
    /\ \E listeners \in recomputeListeners(vh.ingresses, state) :
          vh' = [vh EXCEPT !.secret = state,
                           !.listeners = listeners,
                           !.call = [op |-> "Secret", old |-> NoIngress, obj |-> NoIngress]]
    /\ UNCHANGED <<values, cond, mu, events, strm, fetched, reh, tr, cc, rds, pf, ad>>

vhInit ==
    /\ values = [t \in Types |-> {}]
    /\ cond = [t \in Types |-> [last |-> 0, waiters |-> <<>>]]
    /\ mu = [t \in Types |-> "free"]
    /\ events = 0
    /\ strm = [s \in Streams |-> Return(NewStream(<<"stream", "CDS">>))]
    /\ fetched = NoFetch
    /\ reh = Idle /\ tr = Idle /\ cc = Idle
    /\ rds = Idle /\ pf = Idle /\ ad = Idle
    /\ vh = [HTTP |-> <<>>, HTTPS |-> <<>>, listeners |-> {},
             ingresses |-> {}, secret |-> "absent",
             call |-> [op |-> "none", old |-> NoIngress, obj |-> NoIngress]]

vhNext ==
    \/ \E i \in vhIngresses : vhOnAdd(i)
    \/ \E old \in vhIngresses, new \in vhIngresses : vhOnUpdate(old, new)
    \/ \E i \in vhIngresses : vhOnDelete(i)
    \/ \E state \in SecretStates : vhSecret(state)

vhSpec == vhInit /\ [][vhNext]_vars

\* ------------------------------------------ the calls of the pure functions

\* The timeout of a route in the graph, from the annotations of its Ingress:
\* 0 when none is set, -1 for an infinite one, a duration as it is.
dagTimeout(annotations) ==
    LET timeoutStr == Annotation(annotations, requestTimeout)
    IN  IF timeoutStr = "" THEN 0
        ELSE IF timeoutStr = "infinity" THEN -1
        ELSE IF ParseDuration(timeoutStr).err THEN -1
        ELSE ParseDuration(timeoutStr).d

\* The annotations of an Ingress as far as its request-timeout goes: none,
\* an empty value, the literal, durations, and values that do not parse.
TimeoutAnnotations ==
    { << >> } \cup { [k \in {requestTimeout} |-> str]
                     : str \in {"", "infinity", "1s", "500ms", "0s", "bogus", "10"} }

\* The actions of the route of the Ingress default/kuard with the
\* annotations to kuard:80: the one recomputevhost builds, and the one the
\* route visitor builds from the timeout of the route in the graph.
routeActions(annotations) ==
    [cache |-> routeAction(IngressNamed("kuard", annotations, << >>, NoBackend,
                                                 RuleFor("", "/")), Backend80),
     visitor |-> actionroute("default", "kuard", 80, FALSE, dagTimeout(annotations))]

\* The route of an Ingress with a request-timeout annotation is built.
RequestTimeout ==
    \E annotations \in TimeoutAnnotations :
        pfReturned("routeActions", annotations, routeActions(annotations))

\* The limits hashname is called with: the 60 of every caller, and limits
\* around the length of the short hash and of the whole hash.
Limits == {1, 5, 6, 7, 8, 16, 60, 64, 65, 66}

\* Elements of a name: short ones, and ones of 40 and of 68 bytes.
Forty == "a-service-with-a-name-of-forty-letters-x"

SixtyEight == "a-service-with-a-name-of-more-than-sixty-letters-that-goes-on-and-on"

\* The lists of elements hashname is called with.
PartLists ==
    { << >>, <<"">>, <<"", "">>, <<"a">>, <<"kuard">>, <<"a", "b">>,
      <<"default", "kuard">>, <<"default", "kuard", "80">>,
      <<Forty>>, <<SixtyEight>>, <<Forty, Forty>>, <<"default", SixtyEight, "8080">>,
      <<Forty, Forty, Forty>>, <<SixtyEight, SixtyEight, SixtyEight>> }

\* hashname(l, s...) is called twice with the same arguments; each call gets
\* a slice of its own made of the arguments, and writes to that slice only.
Hashname ==
    \E l \in Limits, s \in PartLists :
        pfReturned("hashname", <<l, s>>,
                   [first |-> hashname(l, s), second |-> hashname(l, s),
                    slice |-> hashnameSlice(l, s)])

\* A Service vertex of the graph, in the namespace default on port 80, with
\* the weight the route declares for it.
dagService(name, weight) ==
    [Name |-> name, Namespace |-> "default", Port |-> 80, Weight |-> weight]

\* A Route vertex: its prefix, its flags and timeout, and the Service
\* vertices below it in the order r.Visit yields them.
dagRoute(prefix, upgrade, services) ==
    [Prefix |-> prefix, Timeout |-> 0, services |-> services, Websocket |-> FALSE,
     HTTPSUpgrade |-> upgrade]

\* Routes of the graph: one whose service did not resolve, one with one
\* service, one with two weighted services, and one that upgrades to HTTPS.
dagRoutes ==
    { dagRoute("/", FALSE, << >>),
      dagRoute("/", FALSE, << dagService("kuard", 0) >>),
      dagRoute("/a", FALSE, << dagService("kuard", 90), dagService("second", 10) >>),
      dagRoute("/b", TRUE, << dagService("second", 0) >>) }

\* The most routes below one virtual host vertex.
MaxDagRoutes == 2

\* The virtual host vertices: plain and secure, with up to MaxDagRoutes
\* routes in the order vh.Visit yields them.
dagVertices ==
    { [secure |-> e[1], FQDN |-> e[2], routes |-> l] :
        e \in {<<FALSE, "*">>, <<FALSE, "a.example.com">>, <<TRUE, "a.example.com">>},
        l \in UNION { [1 .. n -> dagRoutes] : n \in 0 .. MaxDagRoutes } }

\* The graphs, as the roots in the order DAG.Visit yields them: empty, one
\* virtual host, and the plain and the secure virtual host of one name.
DAGs ==
    { << >> } \cup { << v >> : v \in dagVertices }
        \cup { << v, [v EXCEPT !.secure = TRUE] >>
               : v \in { x \in dagVertices : ~x.secure /\ x.FQDN # "*" } }

\* Action: &route.Route_Redirect{Redirect: &route.RedirectAction{HttpsRedirect: true}}
redirectAction == [HttpsRedirect |-> TRUE]

\* Mutant of visitRoute: the route is emitted also when no service is below
\* it, its action naming no cluster.
visitRouteKeepsAll(vhv, r) ==
    << [Match |-> prefixmatch(r.Prefix),
        Action |-> IF Len(r.services) < 1 THEN [Cluster |-> "", Timeout |-> <<>>, UseWebsocket |-> <<>>]
                   ELSE actionroute(r.services[1].Namespace, r.services[1].Name,
                                    r.services[1].Port, r.Websocket, r.Timeout)] >>

\* case *dag.Route of Visit, for the route r of the vertex vhv: what is
\* appended to vhost.Routes. A route without services is skipped; the action
\* is built from svcs[0]; only the plain virtual host turns HTTPSUpgrade into
\* a redirect.
visitRoute(vhv, r) ==
    IF Len(r.services) < 1 THEN << >>
    ELSE << [Match |-> prefixmatch(r.Prefix),
             Action |-> IF ~vhv.secure /\ r.HTTPSUpgrade
                        THEN redirectAction
                        ELSE actionroute(r.services[1].Namespace, r.services[1].Name,
                                         r.services[1].Port, r.Websocket, r.Timeout)] >>

\* vh.Visit(...): the routes of the vertex from the n-th on.
RECURSIVE visitRoutes(_, _)
visitRoutes(vhv, n) ==
    IF n > Len(vhv.routes) THEN << >>
    ELSE visitRoute(vhv, vhv.routes[n]) \o visitRoutes(vhv, n + 1)

\* The virtual host Visit builds for the vertex, before its routes are sorted.
visitVhost(vhv) ==
    [Name |-> hashname(60, <<vhv.FQDN>>),
     Routes |-> visitRoutes(vhv, 1),
     Domains |-> IF vhv.FQDN # "*"
                 THEN <<vhv.FQDN, vhv.FQDN \o (IF vhv.secure THEN ":443" ELSE ":80")>>
                 ELSE <<vhv.FQDN>>]

\* v.DAG.Visit(...) of Visitor.Visit from the n-th root on, m being the two
\* route configurations as built so far: a virtual host without routes is
\* not appended, the routes of the others are sorted.
RECURSIVE visitFrom(_, _, _)
visitFrom(dag, n, m) ==
    IF n > Len(dag) THEN m
    ELSE LET vhost == visitVhost(dag[n])
             sorted == [vhost EXCEPT !.Routes = sortRoutes(@)]
         IN  IF Len(vhost.Routes) < 1 THEN visitFrom(dag, n + 1, m)
             ELSE IF dag[n].secure
             THEN visitFrom(dag, n + 1, [m EXCEPT !.ingress_https = Append(@, sorted)])
             ELSE visitFrom(dag, n + 1, [m EXCEPT !.ingress_http = Append(@, sorted)])

\* Visitor.Visit(): the virtual hosts of ingress_http and of ingress_https.
Visit(dag) == visitFrom(dag, 1, [ingress_https |-> << >>, ingress_http |-> << >>])

\* The route visitor walks a graph.
RouteVisit == \E dag \in DAGs : pfReturned("Visit", dag, Visit(dag))

\* The Ingresses of a host before and after an event: those with a rule for
\* a.example.com, one of them closed to plain HTTP, and those with a default
\* backend.
HostIngresses ==
    { <<"a.example.com", m>> :
        m \in SUBSET { IngressNamed("simple", << >>, TLSFor("a.example.com"), NoBackend,
                                    RuleFor("a.example.com", "")),
                       IngressNamed("closed", [k \in {allowHTTP} |-> "false"], << >>, NoBackend,
                                    RuleFor("a.example.com", "/a")) } }
        \cup { <<"*", m>> :
                 m \in SUBSET { IngressNamed("kuard", << >>, << >>, Backend80, << >>),
                                IngressNamed("second", << >>, << >>,
                                             [ServiceName |-> "second",
                                              ServicePort |-> FromInt(80)], << >>) } }

\* recomputevhost is called for a host with the Ingresses it had before an
\* event, and then with those it has after it.
Recomputevhost ==
    \E before \in HostIngresses, after \in HostIngresses :
        /\ before[1] = after[1]
        /\ \E o1 \in Orders(before[2]), o2 \in Orders(after[2]) :
              LET held == recomputevhost([HTTP |-> << >>, HTTPS |-> << >>], before[1], o1, o1)
              IN  pfReturned("recomputevhost", <<before[1], before[2], after[2]>>,
                             [before |-> held,
                              after |-> recomputevhost(held, after[1], o2, o2)])

\* Subsets of an Endpoints object: ready addresses on one port; another
\* ready address on that port and on a second one; a subset with no ready
\* address; and one with no port.
Subsets ==
    { [Ports |-> <<[Name |-> "", Port |-> 8080]>>, Addresses |-> <<"10.0.0.1">>],
      [Ports |-> <<[Name |-> "", Port |-> 8080], [Name |-> "", Port |-> 9090]>>,
       Addresses |-> <<"10.0.0.2">>],
      [Ports |-> <<[Name |-> "", Port |-> 8080]>>, Addresses |-> << >>],
      [Ports |-> << >>, Addresses |-> <<"10.0.0.3">>] }

\* The most subsets of one Endpoints object.
MaxSubsets == 2

\* The Endpoints objects default/kuard with up to MaxSubsets subsets.
EndpointsOf ==
    { [Object("Endpoints") EXCEPT !.Subsets = l] :
        l \in UNION { [1 .. n -> Subsets] : n \in 0 .. MaxSubsets } }

\* addEndpoints on an empty Translator: the ClusterLoadAssignments held.
AddEndpoints ==
    \E e \in EndpointsOf :
        pfReturned("addEndpoints", e, addEndpoints(NoCaches, e).ClusterLoadAssignmentCache)

\* The target ports of a Service port: a number, and the name of a port of
\* the pods.
TargetPorts == {FromInt(8080), FromString("http")}

\* The Service namespace/name with one TCP port 80 and the target port, and
\* the Endpoints of the same name, whose pods listen on 8080 under the name
\* http: the Clusters addService emits and the ClusterLoadAssignments
\* addEndpoints emits.
edsNames(namespace, name, targetPort) ==
    [clusters |->
        addService(NoCaches,
            [Object("Service") EXCEPT
                !.ObjectMeta = [Name |-> name, Namespace |-> namespace],
                !.Ports = <<[Name |-> "", Port |-> 80, Protocol |-> "TCP",
                             TargetPort |-> targetPort]>>]).ClusterCache,
     assignments |->
        addEndpoints(NoCaches,
            [Object("Endpoints") EXCEPT
                !.ObjectMeta = [Name |-> name, Namespace |-> namespace],
                !.Subsets = <<[Ports |-> <<[Name |-> "http", Port |-> 8080]>>,
                               Addresses |-> <<"10.0.0.1">>]>>]
            ).ClusterLoadAssignmentCache]

\* A Service and its Endpoints are translated.
EdsNames ==
    \E namespace \in Namespaces, name \in ServiceNames, targetPort \in TargetPorts :
        pfReturned("edsNames", <<namespace, name, targetPort>>,
                   edsNames(namespace, name, targetPort))

pfInit ==
    /\ values = [t \in Types |-> {}]
    /\ cond = [t \in Types |-> [last |-> 0, waiters |-> <<>>]]
    /\ mu = [t \in Types |-> "free"]
    /\ events = 0
    /\ strm = [s \in Streams |-> Return(NewStream(<<"stream", "CDS">>))]
    /\ fetched = NoFetch
    /\ reh = Idle /\ tr = Idle /\ cc = Idle
    /\ rds = Idle /\ vh = Idle /\ ad = Idle
    /\ pf = [fn |-> "none", args |-> <<>>, result |-> <<>>]

pfNext ==
    \/ SortRoutes
    \/ ClusterNames
    \/ RequestTimeout
    \/ Hashname
    \/ RouteVisit
    \/ Recomputevhost
    \/ AddEndpoints
    \/ EdsNames

pfSpec == pfInit /\ [][pfNext]_vars

\* --------------------------------------- DAGAdapter.update(), step by step

\* The objects the watchers deliver to the DAGAdapter: an Ingress, and the
\* root IngressRoutes a and b with the status the build of the DAG gives
\* them; a comes in a valid and in an invalid version.
adObjects ==
    { [kind |-> "Ingress", annotated |-> FALSE, class |-> "", name |-> "kuard", status |-> ""],
      [kind |-> "IngressRoute", annotated |-> FALSE, class |-> "", name |-> "a",
       status |-> "valid"],
      [kind |-> "IngressRoute", annotated |-> FALSE, class |-> "", name |-> "a",
       status |-> "invalid"],
      [kind |-> "IngressRoute", annotated |-> FALSE, class |-> "", name |-> "b",
       status |-> "valid"] }

\* d.Remove(obj) and d.Insert(obj) on an object cache that is keyed by kind
\* and name.
adRemove(objects, obj) ==
    { o \in objects : o.kind # obj.kind \/ o.name # obj.name }

adInsert(objects, obj) == adRemove(objects, obj) \cup {obj}

\* d.Statuses() of the DAG built from the objects: one entry per root
\* IngressRoute, in any order.
Statuses(dag) ==
    Orders({ [Object |-> o.name, Status |-> o.status]
             : o \in { x \in dag : x.kind = "IngressRoute" } })

\* What the three visitors yield for the DAG: routes, a listener and a
\* cluster when it holds an Ingress or a valid IngressRoute.
adVisit(dag) ==
    IF \E o \in dag : o.kind = "Ingress" \/ o.status = "valid" THEN {"a"} ELSE {}

\* calculateIngressRouteMetric(): the counters of the one namespace, from
\* d.Statuses().
calculateIngressRouteMetric(dag) ==
    [Total |-> Cardinality({ o \in dag : o.kind = "IngressRoute" }),
     Valid |-> Cardinality({ o \in dag : o.status = "valid" }),
     Invalid |-> Cardinality({ o \in dag : o.status = "invalid" })]

\* Mutant of updateSteps: the caches are updated before the DAG is
\* recomputed.
updateStepsCachesFirst ==
    << "updateListeners", "updateRoutes", "updateClusters", "Recompute",
       "setIngressRouteStatus", "updateIngressRouteMetric" >>

\* The body of update(): the calls it makes, in their order.
updateSteps ==
    << "Recompute", "setIngressRouteStatus", "updateListeners", "updateRoutes",
       "updateClusters", "updateIngressRouteMetric" >>

\* The call that follows step in update(); "idle" when update() returns.
after(step) ==
    LET k == CHOOSE i \in DOMAIN updateSteps : updateSteps[i] = step
    IN  IF k = Len(updateSteps) THEN "idle" ELSE updateSteps[k + 1]

\* A call of the handler has changed the object cache to objects and calls
\* update().
adCalled(a, objects) ==
    [a EXCEPT !.objects = objects, !.pc = updateSteps[1], !.steps = << >>,
              !.k = 1, !.published = << >>, !.failed = {}]

\* The step of update() has returned.
adDone(a, step) == [a EXCEPT !.pc = after(step), !.steps = Append(@, step)]

\* Mutant of setStatus: setIngressRouteStatus returns at the first error of
\* the sink.
setStatusReturnsOnError(a, err) ==
    IF err
    THEN adDone([a EXCEPT !.failed = @ \cup {a.k}], "setIngressRouteStatus")
    ELSE [a EXCEPT !.published = Append(@, a.statuses[a.k]), !.k = @ + 1]

\* One iteration of the loop of setIngressRouteStatus: SetStatus is called
\* for the entry k, and an error is logged.
setStatus(a, err) ==
    IF err
    THEN [a EXCEPT !.failed = @ \cup {a.k}, !.k = @ + 1]
    ELSE [a EXCEPT !.published = Append(@, a.statuses[a.k]), !.k = @ + 1]

\* ad changes to a; the caches are left as w has them.
adStep(a, w) ==
    /\ ad' = a
    /\ values' = w.values
    /\ cond' = w.cond
    /\ mu' = w.mu
    /\ strm' = [s \in Streams |-> [strm[s] EXCEPT !.ch = w.chans[s]]]
    /\ UNCHANGED <<fetched, reh, tr, cc, rds, vh, pf>>

\* OnAdd(obj), OnUpdate(oldObj, newObj), OnDelete(obj) up to their call of
\* update().
adOnAdd(obj) ==
    /\ ad.pc = "idle" /\ events < MaxEvents
    /\ validIngressClass("", obj)
    /\ events' = events + 1
    /\ adStep(adCalled(ad, adInsert(ad.objects, obj)), World)

adOnUpdate(oldObj, newObj) ==
    /\ ad.pc = "idle" /\ events < MaxEvents
    /\ oldObj.kind = newObj.kind /\ oldObj.name = newObj.name /\ oldObj # newObj
    /\ validIngressClass("", oldObj) /\ validIngressClass("", newObj)
    /\ events' = events + 1
    /\ adStep(adCalled(ad, adInsert(adRemove(ad.objects, oldObj), newObj)), World)

adOnDelete(obj) ==
    /\ ad.pc = "idle" /\ events < MaxEvents
    /\ events' = events + 1
    /\ adStep(adCalled(ad, adRemove(ad.objects, obj)), World)

\* d.Recompute(): the DAG is built from the object cache.
adRecompute ==
    /\ ad.pc = "Recompute"
    /\ \E statuses \in Statuses(ad.objects) :
          adStep(adDone([ad EXCEPT !.dag = ad.objects, !.statuses = statuses], "Recompute"),
                 World)
    /\ UNCHANGED events

\* d.IngressRouteStatus.SetStatus(...) returns, with an error or without.
adSetStatus(err) ==
    /\ ad.pc = "setIngressRouteStatus" /\ ad.k <= Len(ad.statuses)
    /\ adStep(setStatus(ad, err), World)
    /\ UNCHANGED events

\* The loop over d.Statuses() ends and setIngressRouteStatus returns.
adStatusesDone ==
    /\ ad.pc = "setIngressRouteStatus" /\ ad.k > Len(ad.statuses)
    /\ adStep(adDone(ad, "setIngressRouteStatus"), World)
    /\ UNCHANGED events

\* d.updateListeners(), d.updateRoutes(), d.updateClusters()
adUpdateListeners ==
    /\ ad.pc = "updateListeners"
    /\ adStep(adDone(ad, "updateListeners"), updateListeners(World, adVisit(ad.dag)))
    /\ UNCHANGED events

adUpdateRoutes ==
    /\ ad.pc = "updateRoutes"
    /\ adStep(adDone(ad, "updateRoutes"), updateRoutes(World, adVisit(ad.dag)))
    /\ UNCHANGED events

adUpdateClusters ==
    /\ ad.pc = "updateClusters"
    /\ adStep(adDone(ad, "updateClusters"), updateClusters(World, adVisit(ad.dag)))
    /\ UNCHANGED events

\* d.updateIngressRouteMetric()
adUpdateIngressRouteMetric ==
    /\ ad.pc = "updateIngressRouteMetric"
    /\ adStep(adDone([ad EXCEPT !.metrics = calculateIngressRouteMetric(ad.dag)],
                      "updateIngressRouteMetric"), World)
    /\ UNCHANGED events

\* The adapter with an empty object cache; one stream is waiting, queued on
\* the cluster cache, and makes no step.
adInit ==
    /\ values = [t \in Types |-> {}]
    /\ cond = [t \in Types |->
                  [last |-> 0, waiters |-> IF t = "CDS" THEN <<1>> ELSE <<>>]]
    /\ mu = [t \in Types |-> "free"]
    /\ events = 0
    /\ strm = [s \in Streams |->
                  IF s = 1
                  THEN [NewStream(<<"stream", "CDS">>) EXCEPT !.pc = "select"]
                  ELSE Return(NewStream(<<"stream", "CDS">>))]
    /\ fetched = NoFetch
    /\ reh = Idle /\ tr = Idle /\ cc = Idle
    /\ rds = Idle /\ vh = Idle /\ pf = Idle
    /\ ad = [pc |-> "idle", objects |-> {}, k |-> 1, dag |-> {}, steps |-> << >>,
             published |-> << >>, failed |-> {}, statuses |-> << >>,
             metrics |-> calculateIngressRouteMetric({})]

adNext ==
    \/ \E obj \in adObjects : adOnAdd(obj)
    \/ \E oldObj \in adObjects, newObj \in adObjects : adOnUpdate(oldObj, newObj)
    \/ \E obj \in adObjects : adOnDelete(obj)
    \/ adRecompute
    \/ \E err \in BOOLEAN : adSetStatus(err)
    \/ adStatusesDone
    \/ adUpdateListeners
    \/ adUpdateRoutes
    \/ adUpdateClusters
    \/ adUpdateIngressRouteMetric

adSpec == adInit /\ [][adNext]_vars

\* ================================================================ properties

\* The streams whose channel is in the waiter queue of cache t, and how often
\* stream s occurs in it.
Queued(c) == {c.waiters[i] : i \in DOMAIN c.waiters}

Occurrences(c, s) == Cardinality({i \in DOMAIN c.waiters : c.waiters[i] = s})

\* The step is one of the writers' updates.
UpdateStep == events' # events

\* The step is stream s returning from Register.
RegisterStep(s) == strm[s].pc = "register" /\ strm'[s].pc # "register"

\* C2: the version of every cache is a natural number that never decreases;
\* an update that changes the contents of a cache advances its version by
\* exactly 1, and the version moves in no other way.
C2_VersionMonotone ==
    [][\A t \in Types :
          /\ cond'[t].last \in Nat
          /\ cond'[t].last >= cond[t].last
          /\ values'[t] # values[t] => cond'[t].last = cond[t].last + 1
          /\ cond'[t].last # cond[t].last =>
                 UpdateStep /\ cond'[t].last = cond[t].last + 1]_vars

\* C2 witness: a cache that two changing updates have taken to version 2.
C2_Witness == \E t \in Types : cond[t].last = 2 /\ events = 2

\* C3: an update that leaves the contents of a cache as they were (the
\* collection it computed equals them) leaves the version and the waiter
\* queue of that cache alone and writes to no channel of a stream on it; an
\* update that changes no cache changes nothing any stream can see.
C3_EqualUpdateIsSilent ==
    [][UpdateStep =>
          /\ \A t \in Types :
                values'[t] = values[t] =>
                    /\ cond'[t] = cond[t]
                    /\ \A s \in Streams : strm[s].typ = t => strm'[s] = strm[s]
          /\ values' = values => cond' = cond /\ strm' = strm /\ mu' = mu]_vars

\* C3 witness: both updates were made, a stream waits in the queue of a cache
\* that is still at version 0 and has been sent nothing.
C3_Witness ==
    /\ events = MaxEvents
    /\ \A t \in Types : cond[t].last = 0 /\ values[t] = {}
    /\ \E s \in Streams :
          /\ s \in Queued(cond[strm[s].typ])
          /\ strm[s].pc = "select" /\ strm[s].ch = <<>> /\ strm[s].nsent = 0

\* C4: Register(ch, last) on a cache at version v writes v to the channel at
\* once and does not queue it when v > last; when v <= last it queues the
\* channel and writes nothing, and a queued channel stays empty until the
\* version advances. So a stream that registers with last = 0 has been sent
\* nothing while its cache is at version 0.
C4_Register ==
    [][\A s \in Streams :
          LET t == strm[s].typ
              v == cond[t].last
          IN  /\ RegisterStep(s) /\ v > strm[s].last =>
                     /\ strm'[s].ch = <<v>>
                     /\ cond'[t] = cond[t]
                     /\ strm'[s].pc = "select"
              /\ RegisterStep(s) /\ v <= strm[s].last =>
                     /\ strm'[s].ch = <<>>
                     /\ cond'[t] = [cond[t] EXCEPT !.waiters = Append(@, s)]
                     /\ strm'[s].pc = "select"
              /\ s \in Queued(cond[t]) /\ cond'[t].last = v => strm'[s].ch = <<>>
              /\ strm'[s].kind # "StreamListeners" /\ cond'[strm'[s].typ].last = 0 =>
                     strm'[s].nsent = 0 /\ strm'[s].pc # "send"]_vars

\* C4 witness: a stream that registered with last = 0 against a cache at
\* version 2 holds the 2 in its channel (a queued channel would have been
\* handed the 1), and another that registered with last = 2 is queued with
\* an empty channel.
C4_Witness ==
    \E s1 \in Streams, s2 \in Streams :
        /\ strm[s1].pc = "select" /\ strm[s1].last = 0 /\ strm[s1].nsent = 0
        /\ strm[s1].ch = <<2>>
        /\ cond[strm[s1].typ].last = 2
        /\ s1 \notin Queued(cond[strm[s1].typ])
        /\ strm[s2].pc = "select" /\ strm[s2].last = 2 /\ strm[s2].ch = <<>>
        /\ s2 \in Queued(cond[strm[s2].typ])

\* C5: a registration is single-shot. A stream's channel is in at most one
\* waiter queue, at most once, and only while it is empty; a stream registers
\* only with its channel empty and out of every queue; a Notify hands the new
\* version once to each channel that was queued and empties the queue, and a
\* stream that was not queued is handed nothing by it.
C5_SingleShot ==
    [][\A s \in Streams :
          LET t == strm[s].typ
          IN  /\ Len(strm'[s].ch) <= 1
              /\ \A u \in Types :
                    Occurrences(cond'[u], s) <= IF u = strm'[s].typ THEN 1 ELSE 0
              /\ s \in Queued(cond'[strm'[s].typ]) => strm'[s].ch = <<>>
              /\ RegisterStep(s) => strm[s].ch = <<>> /\ s \notin Queued(cond[t])
              /\ cond'[t].last # cond[t].last =>
                    /\ cond'[t].waiters = <<>>
                    /\ s \in Queued(cond[t]) => strm'[s].ch = <<cond'[t].last>>
              /\ UpdateStep /\ s \notin Queued(cond[t]) => strm'[s].ch = strm[s].ch]_vars

\* C5 witness: a stream that was queued, was handed version 1 and has not
\* registered again holds just that 1 although its cache has gone on to
\* version 2.
C5_Witness ==
    \E s \in Streams :
        /\ strm[s].pc = "select" /\ strm[s].ch = <<1>>
        /\ cond[strm[s].typ].last = 2
        /\ cond[strm[s].typ].waiters = <<>>

\* C6: no Notify and no Register ever blocks holding a Cond's mutex, so an
\* update always returns; and when it returns, every channel that was queued
\* on a cache whose version it advanced holds the new version, whatever the
\* stream that owns the channel is doing.
C6_UpdateNeverBlocks ==
    [][/\ \A t \in Types : mu'[t] = "free"
       /\ \A s \in Streams : strm'[s].pc # "blocked"
       /\ UpdateStep =>
             \A t \in Types : \A s \in Queued(cond[t]) :
                 cond'[t].last # cond[t].last =>
                     /\ strm'[s].ch # <<>>
                     /\ Head(strm'[s].ch) = cond'[t].last
                     /\ s \notin Queued(cond'[t])]_vars

\* C6 witness: both updates have returned; one of them has written version 1
\* into the queued channel of a stream whose handler had returned, while the
\* other stream was inside Send.
C6_Witness ==
    /\ events = MaxEvents
    /\ \E s1 \in Streams, s2 \in Streams :
          /\ strm[s1].pc = "closed" /\ strm[s1].ch = <<1>>
          /\ cond[strm[s1].typ].last = 1
          /\ strm[s2].pc = "send"

\* The step is stream s sending a response.
SendStep(s) == strm[s].pc = "send" /\ strm'[s].nsent = strm[s].nsent + 1

\* The step is the first registration of stream s: a handler registers once
\* for every response it sends.
FirstRegisterStep(s) == RegisterStep(s) /\ strm[s].nsent = 0

\* C7: within one stream every response after the first carries a nonce
\* greater than the nonce of the response before it.
C7_NonceIncreasing ==
    [][\A s \in Streams :
          SendStep(s) /\ strm[s].nsent >= 1 =>
              ParseInt(strm'[s].lastSent.nonce) > ParseInt(strm[s].lastSent.nonce)]_vars

\* C8: a response built for a notification carries the decimal rendering of
\* the version the notification delivered as its version_info and the type
\* URL of the stream's resource kind as its type_url.
C8_VersionInfo ==
    \A s \in Streams :
        strm[s].pc = "send" /\ strm[s].kind # "StreamListeners" =>
            /\ strm[s].resp.version_info = FormatInt(strm[s].last)
            /\ strm[s].resp.type_url = TypeURL(strm[s].typ)

C10_NoDeadWaiter ==
    \A s \in Streams :
        strm[s].pc = "closed" => \A t \in Types : s \notin Queued(cond[t])

\* ------------------------------------------------------------------ liveness

\* A handler that can take its next step takes it: it registers, takes a
\* notification that is waiting in its channel, and its Send returns; the
\* client of grpcServer.stream sends its next request. The writers and the
\* failures (errors, cancellation) are under no obligation.
FairSpec ==
    /\ Spec
    /\ \A s \in Streams :
          /\ WF_vars(Register(s))
          /\ WF_vars(Notified(s))
          /\ WF_vars(Send(s))
          /\ WF_vars(\E url \in RequestURLs, ver \in ClientVersions : Recv(s, url, ver))

\* Stream s has registered with the cache of its kind at least once.
Registered(s) ==
    /\ strm[s].kind # "StreamListeners"
    /\ strm[s].pc \in {"select", "send"} \/ strm[s].nsent > 0

\* Stream s has returned, or the last response it sent is of its kind and
\* carries a version_info of at least v.
SentAtLeast(s, v) ==
    \/ strm[s].pc = "closed"
    \/ /\ strm[s].lastSent.type_url = TypeURL(strm[s].typ)
       /\ ParseInt(strm[s].lastSent.version_info) >= v

\* C1: whenever the cache of a registered stream's kind has reached version
\* v, the stream is eventually sent a response of that kind whose
\* version_info is at least v, unless it returns first; so once the cache
\* stops changing the last response carries its final version.
C1_EventuallyCurrent ==
    \A s \in Streams : \A v \in 1..MaxEvents :
        (Registered(s) /\ cond[strm[s].typ].last >= v) ~> SentAtLeast(s, v)

\* The step is a Fetch call of kind t returning a response.
FetchStep(t) == fetched' # fetched /\ fetched'.typ = t /\ ~fetched'.err

\* C11 as stated: a Fetch returns the cache's contents at the time of the
\* call together with the cache's version at that time as version_info.
C11_FetchCurrentVersion ==
    [][\A t \in Types :
          FetchStep(t) =>
              /\ fetched'.resp.resources = values[t]
              /\ fetched'.resp.version_info = FormatInt(cond[t].last)]_vars

\* C11 amended: a Fetch returns the cache's contents at the time of the call
\* under the kind's type URL, and its version_info and nonce are "0"
\* whatever version the cache is at.
C11_FetchVersionZero ==
    [][\A t \in Types :
          FetchStep(t) =>
              /\ fetched'.resp.resources = values[t]
              /\ fetched'.resp.type_url = TypeURL(t)
              /\ fetched'.resp.version_info = "0"
              /\ fetched'.resp.nonce = "0"]_vars

\* C11 witness: a Fetch has returned the contents a cache holds at version 1
\* (the only version so far at which a cache is not empty) with
\* version_info "0".
C11_Witness ==
    /\ fetched.typ \in Types /\ ~fetched.err
    /\ fetched.resp.resources = {"a"}
    /\ fetched.resp.version_info = "0"
    /\ cond[fetched.typ].last = 1
    /\ values[fetched.typ] = {"a"}

\* The class the handler is configured with, "contour" when none is.
ConfiguredClass == IF reh.IngressClass = "" THEN "contour" ELSE reh.IngressClass

\* obj is an Ingress whose ingress.class annotation is present and differs
\* from the configured class.
Rejected(obj) ==
    obj.kind = "Ingress" /\ obj.annotated /\ obj.class # ConfiguredClass

\* The object cache without the identity of obj.
Without(objects, obj) == {o \in objects : o.kind # obj.kind}

\* The step is a call of the handler's operation op.
CallStep(op) == events' = events + 1 /\ reh'.call.op = op

\* The step changes no resource cache, no version, and no stream.
CachesUntouched == values' = values /\ cond' = cond /\ mu' = mu /\ strm' = strm

\* The resource caches hold what the visitors yield for the new object cache.
CachesRecomputed ==
    /\ values'["LDS"] = listenerVisit(reh'.objects)
    /\ values'["RDS"] = routeVisit(reh'.objects)
    /\ values'["CDS"] = clusterVisit(reh'.objects)

\* C12: OnUpdate(old, new) leaves the object cache alone and runs no update
\* when neither object passes the class check; removes old, does not insert
\* new and runs update once when old passes and new does not; and otherwise
\* removes old, inserts new and runs update once.
C12_OnUpdate ==
    [][CallStep("OnUpdate") =>
          LET old == reh'.call.old
              new == reh'.call.obj
          IN  CASE Rejected(old) /\ Rejected(new) ->
                      /\ reh'.objects = reh.objects
                      /\ reh'.call.updates = 0
                      /\ CachesUntouched
                [] ~Rejected(old) /\ Rejected(new) ->
                      /\ reh'.objects = Without(reh.objects, old)
                      /\ new \notin reh'.objects
                      /\ reh'.call.updates = 1
                      /\ CachesRecomputed
                [] OTHER ->
                      /\ reh'.objects = Without(reh.objects, old) \cup {new}
                      /\ reh'.call.updates = 1
                      /\ CachesRecomputed]_vars

\* C12 witness: an Ingress was added and then updated to a version of a
\* class the handler rejects: the object cache is empty again, update ran
\* once in that call, and the route cache has gone to version 2.
C12_Witness ==
    /\ reh.call.op = "OnUpdate"
    /\ ~Rejected(reh.call.old) /\ Rejected(reh.call.obj)
    /\ reh.call.updates = 1
    /\ reh.objects = {}
    /\ cond["RDS"].last = 2 /\ values["RDS"] = {}

\* C13: OnAdd of an Ingress whose class annotation is present and differs
\* from the configured class changes nothing: object cache, resource caches,
\* versions and streams stay as they are and update is not run. OnAdd of any
\* other object inserts it and runs update once.
C13_OnAdd ==
    [][CallStep("OnAdd") =>
          LET obj == reh'.call.obj
          IN  IF Rejected(obj)
              THEN /\ reh'.objects = reh.objects
                   /\ reh'.call.updates = 0
                   /\ CachesUntouched
              ELSE /\ reh'.objects = Without(reh.objects, obj) \cup {obj}
                   /\ reh'.call.updates = 1
                   /\ CachesRecomputed]_vars

\* C13 witness: after an Ingress was added (route cache at version 1, the
\* waiting stream not yet notified by the cluster cache), OnAdd of an Ingress
\* of another class has returned without running update.
C13_Witness ==
    /\ reh.call.op = "OnAdd"
    /\ Rejected(reh.call.obj)
    /\ reh.call.updates = 0
    /\ events = 2
    /\ reh.objects # {} /\ reh.call.obj \notin reh.objects
    /\ cond["RDS"].last = 1
    /\ 1 \in Queued(cond["CDS"])

\* The step is a call of the Translator; tr'.call names it.
trCall(op) == tr' # tr /\ tr'.call.op = op

\* What addIngress and the admission check of the event handler let pass.
Admitted(obj) == ~(obj.kind = "Ingress" /\ obj.annotated /\ obj.class # "contour")

\* C14: after OnUpdate(old, new) of an admitted object the three caches hold
\* exactly what OnDelete(old) followed by OnAdd(new) would have left, so that
\* nothing derived only from old survives.
C14_UpdateIsDeleteThenAdd ==
    [][trCall("OnUpdate") /\ Admitted(tr'.call.old) /\ Admitted(tr'.call.obj) =>
          Caches(tr') = Caches(trOnAdd(trOnDelete(tr, tr'.call.old), tr'.call.obj))]_vars

\* C15: OnAdd(X) of an object the informer did not hold, followed by
\* OnDelete(X), leaves every cache as it was before the OnAdd.
C15_RoundTrip ==
    [][/\ trCall("OnDelete")
       /\ tr.call.op = "OnAdd" /\ tr.call.fresh
       /\ tr.call.obj = tr'.call.obj
       => Caches(tr') = tr.before]_vars

\* C16: an OnAdd(obj) that follows an OnAdd(obj) of the same object leaves
\* every cache exactly as the first left it: no entry is added and none
\* changes.
C16_AddTwice ==
    [][/\ trCall("OnAdd")
       /\ tr.call.op = "OnAdd"
       /\ tr'.call.obj = tr.call.obj
       => Caches(tr') = Caches(tr)]_vars

\* A Service with a named port was added twice in a row: its two clusters are
\* held once each.
C16_Witness ==
    /\ tr.call.op = "OnAdd" /\ tr.call.follows.op = "OnAdd"
    /\ tr.call.obj.kind = "Service"
    /\ Len(tr.ClusterCache) = 2
    /\ tr.ClusterCache[1].Name = "default/kuard/80"
    /\ tr.ClusterCache[2].Name = "default/kuard/http"
    /\ tr.before = Caches(tr)

\* The step is stream s returning a serialization or transport error.
ErrorStep(s) ==
    /\ strm[s].pc # "closed" /\ strm'[s].pc = "closed"
    /\ strm'[s].err \in {"marshal", "send"}

\* C17: a Send error or a serialization error ends the stream it occurs on
\* and touches nothing else: the contents and the versions of the caches, the
\* waiter queues, the event handler's objects and every other stream, with
\* the notifications it holds and the response it is about to send, are as
\* they were.
C17_ErrorEndsOneStream ==
    [][\A s \in Streams :
          ErrorStep(s) =>
              /\ values' = values /\ cond' = cond /\ mu' = mu /\ events' = events
              /\ reh' = reh
              /\ \A o \in Streams \ {s} : strm'[o] = strm[o]]_vars

\* One stream has ended with a Send error after the cache reached version 1;
\* the other, which was sent version 1, is being sent version 2.
C17_Witness ==
    \E s \in Streams, o \in Streams :
        /\ s # o
        /\ strm[s].pc = "closed" /\ strm[s].err = "send"
        /\ strm[o].kind = "stream" /\ strm[o].pc = "send"
        /\ strm[o].nsent = 1 /\ strm[o].lastSent.version_info = FormatInt(1)
        /\ strm[o].resp.version_info = FormatInt(2)
        /\ cond[strm[o].typ].last = 2

\* C18: a request whose type_url is not one the server knows does not end
\* the stream; whenever Recv hands the handler a request, the handler is
\* still serving afterwards.
C18_MalformedKeepsStream ==
    [][\A s \in Streams :
          strm[s].pc = "recv" /\ strm'[s] # strm[s] /\ strm'[s].err # "recv" =>
              strm'[s].pc # "closed"]_vars

\* The entries of a sequence.
Held(vs) == {vs[k] : k \in DOMAIN vs}

\* The names of a sequence of entries go strictly up.
Ascending(vs) ==
    \A j \in DOMAIN vs, k \in DOMAIN vs : j < k => NameLess(vs[j].Name, vs[k].Name)

\* C19: when Add or Remove has returned, the entries of the cache are in
\* strictly ascending order of name, one entry per name. Add of a name that
\* was held replaces its entry and keeps the size; Add of a new name adds the
\* entry and nothing else; Remove of a name that was held removes its entry
\* and nothing else; Remove of a name that was not held changes nothing.
C19_SortedUnique ==
    LET now == Cells(cc.heap, cc.values)
        was == cc.last.before
        e == cc.last.e
        same == {x \in Held(was) : x.Name = e.Name}
    IN  cc.w.pc = "idle" =>
            /\ now = cc.held
            /\ Ascending(now)
            /\ cc.last.op = "Add" =>
                  /\ Held(now) = (Held(was) \ same) \cup {e}
                  /\ Len(now) = IF same = {} THEN Len(was) + 1 ELSE Len(was)
            /\ cc.last.op = "Remove" =>
                  /\ Held(now) = Held(was) \ same
                  /\ Len(now) = IF same = {} THEN Len(was) ELSE Len(was) - 1
                  /\ same = {} => now = was

\* Add has put the lesser name in front of the one that was held.
C19_Witness ==
    /\ cc.w.pc = "idle"
    /\ cc.last.op = "Add"
    /\ cc.last.before = <<[Name |-> "default/kuard/http", v |-> 1]>>
    /\ cc.held = <<[Name |-> "default/kuard/80", v |-> 2],
                   [Name |-> "default/kuard/http", v |-> 1]>>

\* C20: the slice a call of Values returned holds, for as long as the reader
\* keeps it, the entries the cache held when Values ran, which are those that
\* the calls of Add and Remove that had returned by then had left: no later
\* Add or Remove changes it, and it never shows a call half done.
C20_SnapshotStable ==
    \A r \in Readers :
        cc.rd[r].pc = "has" => Cells(cc.heap, cc.rd[r].snap) = cc.rd[r].at

\* A reader holds two entries while the writer has since removed the first
\* of them, which moved the second to the front of the cache's array.
C20_Witness ==
    \E r \in Readers :
        /\ cc.rd[r].pc = "has"
        /\ Len(cc.rd[r].at) = 2
        /\ cc.w.pc = "idle"
        /\ cc.last.op = "Remove" /\ cc.last.before = cc.rd[r].at
        /\ Len(cc.held) = 1
        /\ cc.held[1].Name = "default/kuard/http"

\* The virtual hosts stand in the ascending order of their names.
ByName(vs) ==
    \A i \in DOMAIN vs : \A j \in DOMAIN vs :
        i < j => NameLess(vs[i].Name, vs[j].Name)

\* C21: every RDS response that is served, by Fetch or on a stream, holds
\* exactly two route configurations, ingress_http and then ingress_https,
\* also when one or both are empty, and the virtual hosts of each stand in
\* the order of their names.
C21_TwoRouteConfigurations ==
    (rds.by # "none" /\ rds.err = "nil") =>
        /\ Len(rds.resp) = 2
        /\ rds.resp[1].Name = "ingress_http"
        /\ rds.resp[2].Name = "ingress_https"
        /\ \A i \in 1 .. 2 : ByName(rds.resp[i].VirtualHosts)

\* C22: after every completed call of the Translator, every cluster named by
\* the action of a route of a virtual host in the route cache is the name of
\* a cluster in the cluster cache.
C22_NoOrphanRoutes ==
    \A i \in DOMAIN tr.VirtualHostCache :
        \A k \in DOMAIN tr.VirtualHostCache[i].Routes :
            \E c \in DOMAIN tr.ClusterCache :
                tr.ClusterCache[c].Name = tr.VirtualHostCache[i].Routes[k].Action

\* C23: in the routes of a virtual host as they are sorted, a route with a
\* longer prefix stands before every route with a shorter prefix, and routes
\* with prefixes of the same length stand in string order, whatever the
\* prefixes are and in whatever order the routes were produced.
C23_LongestPrefixFirst ==
    pf.fn = "sortRoutes" =>
        \A i \in DOMAIN pf.result : \A j \in DOMAIN pf.result :
            (i < j /\ pf.result[i].Match.Regex = "" /\ pf.result[j].Match.Regex = "") =>
                \/ Len(pf.result[i].Match.Prefix) > Len(pf.result[j].Match.Prefix)
                \/ /\ Len(pf.result[i].Match.Prefix) = Len(pf.result[j].Match.Prefix)
                   /\ NameLess(pf.result[i].Match.Prefix, pf.result[j].Match.Prefix)

\* A cluster of that name is among the clusters emitted.
Emitted(name) ==
    \E c \in DOMAIN pf.result.emitted : pf.result.emitted[c].Name = name

\* C24: for every namespace, service and port, the cluster name a route's
\* action carries is the name of a cluster emitted for that port of the
\* Service, whether the route names the port by its number or by its name,
\* and whether the joined name is under the limit of 60 or is truncated and
\* hashed.
C24_RouteNamesItsCluster ==
    pf.fn = "clusterNames" =>
        /\ Emitted(pf.result.byNumber)
        /\ Emitted(pf.result.actionroute)
        /\ pf.args[3].Name # "" => Emitted(pf.result.byName)

\* A Service with a named port whose joined names pass the limit: the
\* routes carry truncated names, and both are names of emitted clusters.
C24_Witness ==
    /\ pf.fn = "clusterNames"
    /\ pf.args[3].Name = "http"
    /\ Len(Join(<<pf.args[1], pf.args[2], "80">>)) >= 60
    /\ pf.result.byNumber # Join(<<pf.args[1], pf.args[2], FormatInt(pf.args[3].Port)>>)
    /\ Len(pf.result.byNumber) < 60
    /\ Emitted(pf.result.byNumber) /\ Emitted(pf.result.byName)
    /\ Len(pf.result.emitted) = 2

\* The cache holds a virtual host for the host.
HasVhost(cache, host) ==
    \E k \in DOMAIN cache : cache[k].Name = hashname(60, <<host>>)

\* C25: ingress_https holds a virtual host for a host only while the Secret
\* that the TLS entry of the host names is in the object cache with a
\* certificate and a key; while the Secret is absent or empty, ingress_https
\* holds no virtual host for the host, and ingress_http still holds the plain
\* one of every Ingress that has not disabled HTTP.
C25_SecureOnlyWithSecret ==
    \A i \in vh.ingresses : \A h \in vhostsOf(i) :
        validTLSSpecforVhost(h, i) =>
            /\ HasVhost(vh.HTTPS, h) => vh.secret = "valid"
            /\ (vh.secret # "valid" /\ Annotation(i.Annotations, allowHTTP) # "false")
                   => HasVhost(vh.HTTP, h)

\* C26: after every update the listener cache holds the HTTP listener if and
\* only if ingress_http holds a virtual host, and the HTTPS listener if and
\* only if ingress_https holds one, so that a listener goes when its last
\* virtual host goes.
C26_ListenerIffVhost ==
    /\ ENVOY_HTTP_LISTENER \in vh.listeners <=> Len(vh.HTTP) > 0
    /\ ENVOY_HTTPS_LISTENER \in vh.listeners <=> Len(vh.HTTPS) > 0

\* The Ingress has a default backend, no rules, and has not disabled HTTP.
DefaultBackendOnly(i) ==
    /\ i.Backend # NoBackend /\ i.Rules = << >>
    /\ Annotation(i.Annotations, allowHTTP) # "false"

\* C27: whenever an Ingress with a default backend and no rules is held,
\* one or several, ingress_http holds the virtual host "*" with the domains
\* ["*"] and, as its only route, the prefix "/" to the cluster of the backend
\* of such an Ingress.
C27_DefaultBackendVhost ==
    (\E i \in vh.ingresses : DefaultBackendOnly(i)) =>
        \E k \in DOMAIN vh.HTTP :
            /\ vh.HTTP[k].Name = "*"
            /\ vh.HTTP[k].Domains = <<"*">>
            /\ Len(vh.HTTP[k].Routes) = 1
            /\ vh.HTTP[k].Routes[1].Match = prefixmatch("/")
            /\ \E i \in vh.ingresses :
                  /\ DefaultBackendOnly(i)
                  /\ vh.HTTP[k].Routes[1].Action.Cluster
                        = ingressBackendToClusterName(i, i.Backend)

\* The Ingress has disabled plain HTTP.
HTTPDisabled(i) == Annotation(i.Annotations, allowHTTP) = "false"

\* The Ingresses held whose map of the host holds them.
IngressesFor(host) == { i \in vh.ingresses : host \in vhostsOf(i) }

\* The routes an Ingress can give to the virtual host of the host: the one of
\* its default backend and those of its rules.
RoutesOf(i, host) ==
    (IF i.Backend # NoBackend
     THEN {[Match |-> prefixmatch("/"), Action |-> routeAction(i, i.Backend)]}
     ELSE {})
        \cup {rulesRoutes(host, i, 1)[k] : k \in DOMAIN rulesRoutes(host, i, 1)}

\* The Ingress without its allow-http annotation.
WithoutAllowHTTP(i) ==
    [i EXCEPT !.Annotations = [k \in DOMAIN i.Annotations \ {allowHTTP} |-> i.Annotations[k]]]

\* The virtual hosts of the cache for the host: none or one.
VhostsFor(cache, host) ==
    { cache[k] : k \in {k \in DOMAIN cache : cache[k].Name = hashname(60, <<host>>)} }

\* The virtual hosts the first loop of recomputevhost can give for the host
\* from the Ingresses ings: none when no route results.
SecureVhosts(host, ings) ==
    { LET vv == [virtualhost(host) EXCEPT !.Routes = httpsRoutes(host, o, 1)]
      IN  IF Len(vv.Routes) > 0 THEN {[vv EXCEPT !.Routes = sortRoutes(@)]} ELSE {}
      : o \in Orders(ings) }

\* C28: an Ingress with allow-http: "false" gives no route to ingress_http:
\* every route of the plain virtual host of a host is a route of an Ingress
\* of the host that has not disabled HTTP; when the only Ingress of a host
\* has disabled HTTP, ingress_http holds no virtual host for the host; and
\* the ingress_https virtual host of the host is the one the same Ingresses
\* give without the annotation.
C28_AllowHTTPFalse ==
    \A host \in UNION {vhostsOf(i) : i \in vhIngresses} :
        /\ \A vv \in VhostsFor(vh.HTTP, host) : \A k \in DOMAIN vv.Routes :
              \E i \in IngressesFor(host) :
                  ~HTTPDisabled(i) /\ vv.Routes[k] \in RoutesOf(i, host)
        /\ (\E i \in vh.ingresses : IngressesFor(host) = {i} /\ HTTPDisabled(i))
               => ~HasVhost(vh.HTTP, host)
        /\ (\E i \in IngressesFor(host) : HTTPDisabled(i))
               => VhostsFor(vh.HTTPS, host)
                      \in SecureVhosts(host, {WithoutAllowHTTP(i) : i \in IngressesFor(host)})

\* The Ingress simple, the only one of a.example.com, has been updated to
\* allow-http: "false": the plain virtual host of the host is gone and the
\* secure one is held.
C28_Witness ==
    /\ vh.call.op = "OnUpdate"
    /\ ~HTTPDisabled(vh.call.old) /\ HTTPDisabled(vh.call.obj)
    /\ IngressesFor("a.example.com") = {vh.call.obj}
    /\ ~HasVhost(vh.HTTP, "a.example.com")
    /\ HasVhost(vh.HTTPS, "a.example.com")

\* What the claim says of the timeout field of a route action, for the value
\* of the request-timeout annotation.
TimeoutAsAnnotated(annotations, action) ==
    LET timeoutStr == Annotation(annotations, requestTimeout)
    IN  IF timeoutStr = "" THEN action.Timeout = << >>
        ELSE IF timeoutStr = "infinity" THEN action.Timeout = <<0>>
        ELSE IF ParseDuration(timeoutStr).err THEN action.Timeout = <<0>>
        ELSE action.Timeout = <<ParseDuration(timeoutStr).d>>

\* C29: a route of an Ingress without a request-timeout, or with an empty
\* one, has no timeout field; with "infinity" or a value that does not parse
\* its timeout field is set, to zero; with a duration the field is set to
\* that duration.
C29_RequestTimeout ==
    pf.fn = "routeActions" =>
        /\ TimeoutAsAnnotated(pf.args, pf.result.cache)
        /\ TimeoutAsAnnotated(pf.args, pf.result.visitor)

C31_NoRequestGatesSend ==
    \A s \in Streams : strm[s].nsent > 0 => strm[s].pc # "recv"

\* The caches update() writes.
AdapterCaches == {"LDS", "RDS", "CDS"}

\* q is p or the start of p.
IsPrefix(q, p) == Len(q) <= Len(p) /\ q = SubSeq(p, 1, Len(q))

\* C32: in every update the steps run in the order recompute, status,
\* listeners, routes, clusters, metrics: a step that changes a cache or
\* notifies a waiter comes after the recompute of the same update, with the
\* DAG built from the object cache as the event left it, and the metrics
\* are set when the three caches hold what the visitors give for that DAG.
C32_UpdateOrder ==
    [][ /\ IsPrefix(ad'.steps, << "Recompute", "setIngressRouteStatus", "updateListeners",
                                  "updateRoutes", "updateClusters",
                                  "updateIngressRouteMetric" >>)
        /\ (values' # values \/ cond' # cond \/ strm' # strm)
               => /\ Len(ad.steps) >= 1 /\ ad.steps[1] = "Recompute"
                  /\ ad.dag = ad.objects
        /\ (ad.pc = "updateIngressRouteMetric" /\ ad'.pc = "idle")
               => /\ \A t \in AdapterCaches : values[t] = adVisit(ad.dag)
                  /\ ad'.metrics = calculateIngressRouteMetric(ad.objects) ]_vars

\* An update has run to its end: the waiting stream has been notified of
\* the new clusters and the metrics count the IngressRoute of the event.
C32_Witness ==
    /\ ad.pc = "idle" /\ Len(ad.steps) = 6
    /\ cond["CDS"].last > 0 /\ strm[1].ch # << >>
    /\ values["CDS"] = {"a"}
    /\ ad.metrics.Total > 0

\* The entries of the sequence q from the k-th on whose index is not in skip.
RECURSIVE Except(_, _, _)
Except(q, skip, k) ==
    IF k > Len(q) THEN << >>
    ELSE (IF k \in skip THEN << >> ELSE <<q[k]>>) \o Except(q, skip, k + 1)

\* setIngressRouteStatus has returned in the update under way or just ended.
StatusesPublished ==
    \E k \in DOMAIN ad.steps : ad.steps[k] = "setIngressRouteStatus"

\* C40: an error of the status sink for an entry is ignored: once
\* setIngressRouteStatus has returned, every entry of the update for which
\* the sink did not fail has been published, in order; and when the update
\* has ended, the three caches and the metrics are what the objects give,
\* whatever the sink did.
C40_SinkFailureIgnored ==
    /\ StatusesPublished => ad.published = Except(ad.statuses, ad.failed, 1)
    /\ (ad.pc = "idle" /\ Len(ad.steps) = Len(updateSteps))
           => /\ \A t \in AdapterCaches : values[t] = adVisit(ad.objects)
              /\ ad.metrics = calculateIngressRouteMetric(ad.objects)

\* An update with two status entries has ended; the sink failed for the
\* first and took the second, and the caches and the metrics are updated.
C40_Witness ==
    /\ ad.pc = "idle" /\ Len(ad.steps) = 6
    /\ Len(ad.statuses) = 2 /\ ad.failed = {1}
    /\ ad.published = <<ad.statuses[2]>>
    /\ values["CDS"] = {"a"} /\ cond["CDS"].last > 0
    /\ ad.metrics.Total = 2

\* C33: whatever calls the handler has served, its object cache holds no
\* Ingress whose class annotation is present and differs from the configured
\* class; and an object of another kind that was added or updated is held.
C33_OnlyAdmittedIngresses ==
    /\ \A o \in reh.objects : ~Rejected(o)
    /\ (reh.call.op \in {"OnAdd", "OnUpdate"} /\ reh.call.obj.kind # "Ingress")
           => reh.call.obj \in reh.objects

\* A Service is held and an Ingress of another class has been offered by
\* OnAdd: the object cache holds the Service and no Ingress.
C33_Witness ==
    /\ reh.call.op = "OnAdd"
    /\ Rejected(reh.call.obj)
    /\ \E o \in reh.objects : o.kind = "Service"
    /\ \A o \in reh.objects : o.kind # "Ingress"

\* C34: a stream reads the cache after it has taken the notification. In the
\* step that takes a notification carrying version v and builds the response,
\* the resources are the contents the cache holds at that moment, and the
\* version the cache is at then is v or later: the contents are never older
\* than the version_info they are sent under.
C34_ReadAfterNotification ==
    [][ \A s \in Streams :
            (strm[s].pc = "select" /\ strm'[s].pc = "send")
                => LET t == strm[s].typ
                       r == strm'[s].resp
                   IN  /\ r.resources = values[t]
                       /\ ParseInt(r.version_info) <= cond[t].last
                       /\ strm[s].kind \in {"stream", "StreamClusters"}
                              => ParseInt(r.version_info) = Head(strm[s].ch) ]_vars

\* The writer updated the cache between the notification and the read: the
\* response is labelled version 1, and carries the empty contents the cache
\* came back to at a later version, not what it held at version 1 (an update
\* is only notified when it changes the contents, so version 1 was not empty).
C34_Witness ==
    \E s \in Streams :
        /\ strm[s].kind \in {"stream", "StreamClusters"}
        /\ strm[s].pc = "send"
        /\ strm[s].resp.version_info = "1"
        /\ strm[s].resp.resources = {}
        /\ cond[strm[s].typ].last >= 2

\* The routes of the vertex that have a service below them.
Resolvable(vhv) == { k \in DOMAIN vhv.routes : Len(vhv.routes[k].services) >= 1 }

\* The virtual hosts a walk of the graph emitted for the vertex.
EmittedFor(m, vhv) ==
    LET rc == IF vhv.secure THEN m.ingress_https ELSE m.ingress_http
    IN  { k \in DOMAIN rc : rc[k].Name = hashname(60, <<vhv.FQDN>>) }

\* No virtual host of the caches is without routes.
NoneEmpty(caches) ==
    /\ \A k \in DOMAIN caches.HTTP : Len(caches.HTTP[k].Routes) > 0
    /\ \A k \in DOMAIN caches.HTTPS : Len(caches.HTTPS[k].Routes) > 0

\* C35: no virtual host without routes is emitted or held. The route
\* visitor emits, for every virtual host of the graph, as many routes as have
\* a service below them, and no virtual host at all when that number is zero.
\* recomputevhost leaves no virtual host without routes in ingress_http or
\* ingress_https, and a virtual host it leaves there has an Ingress that
\* gives it a route: one that was held and has lost its routes is removed.
C35_NoEmptyVirtualHost ==
    /\ pf.fn = "Visit" =>
          /\ \A k \in DOMAIN pf.result.ingress_http :
                Len(pf.result.ingress_http[k].Routes) > 0
          /\ \A k \in DOMAIN pf.result.ingress_https :
                Len(pf.result.ingress_https[k].Routes) > 0
          /\ \A n \in DOMAIN pf.args :
                LET rc == IF pf.args[n].secure THEN pf.result.ingress_https
                          ELSE pf.result.ingress_http
                IN  /\ Cardinality(EmittedFor(pf.result, pf.args[n]))
                          = IF Resolvable(pf.args[n]) = {} THEN 0 ELSE 1
                    /\ \A k \in EmittedFor(pf.result, pf.args[n]) :
                          Len(rc[k].Routes) = Cardinality(Resolvable(pf.args[n]))
    /\ pf.fn = "recomputevhost" =>
          /\ NoneEmpty(pf.result.before)
          /\ NoneEmpty(pf.result.after)
          /\ HasVhost(pf.result.after.HTTP, pf.args[1])
                => \E i \in pf.args[3] : ~HTTPDisabled(i) /\ RoutesOf(i, pf.args[1]) # {}
          /\ HasVhost(pf.result.after.HTTPS, pf.args[1])
                => \E i \in pf.args[3] :
                       /\ validTLSSpecforVhost(pf.args[1], i)
                       /\ rulesRoutes(pf.args[1], i, 1) # << >>

\* A virtual host that was held loses its routes while its host still has an
\* Ingress, and is gone from the cache.
C35_Witness ==
    /\ pf.fn = "recomputevhost"
    /\ pf.args[3] # {}
    /\ HasVhost(pf.result.before.HTTP, pf.args[1])
    /\ HasVhost(pf.result.before.HTTPS, pf.args[1])
    /\ ~HasVhost(pf.result.after.HTTP, pf.args[1])
    /\ ~HasVhost(pf.result.after.HTTPS, pf.args[1])

\* The clusters a route action references, in order: the one of its Cluster
\* field, and none for a redirect.
Referenced(action) ==
    IF "Cluster" \in DOMAIN action THEN << action.Cluster >> ELSE << >>

\* The clusters of the services a route of the graph declares, in order.
Declared(r) ==
    [k \in DOMAIN r.services |->
        actionrouteCluster(r.services[k].Namespace, r.services[k].Name, r.services[k].Port)]

\* C36: for every route of the graph that has services and is not turned into
\* a redirect, the virtual host emitted for its vertex has a route of the same
\* prefix whose action references the clusters of all its services, in the
\* order they are declared.
C36_AllServicesReferenced ==
    pf.fn = "Visit" =>
        \A n \in DOMAIN pf.args :
            LET vhv == pf.args[n]
                rc == IF vhv.secure THEN pf.result.ingress_https ELSE pf.result.ingress_http
            IN  \A r \in { vhv.routes[k] : k \in Resolvable(vhv) } :
                    (vhv.secure \/ ~r.HTTPSUpgrade)
                        => \E k \in EmittedFor(pf.result, vhv) :
                               \E j \in DOMAIN rc[k].Routes :
                                   /\ rc[k].Routes[j].Match = prefixmatch(r.Prefix)
                                   /\ Referenced(rc[k].Routes[j].Action) = Declared(r)

\* The subsets of the Endpoints object that addEndpoints has to translate:
\* those with a ready address and a port.
Ready(e) ==
    { n \in DOMAIN e.Subsets : Len(e.Subsets[n].Addresses) > 0 /\ Len(e.Subsets[n].Ports) > 0 }

\* The subsets among them that carry the port number.
Carrying(e, port) ==
    { n \in Ready(e) : \E k \in DOMAIN e.Subsets[n].Ports : e.Subsets[n].Ports[k].Port = port }

\* The addresses a ClusterLoadAssignment lists.
AddressesOf(cla) == { cla.LbEndpoints[k].Address : k \in DOMAIN cla.LbEndpoints }

\* C37: after addEndpoints the cache holds, for every port that a subset
\* with ready addresses carries, one ClusterLoadAssignment named for
\* (namespace, service, port) that lists the ready addresses of every subset
\* carrying the port, and holds nothing for any other port.
C37_AllReadyAddresses ==
    pf.fn = "addEndpoints" =>
        \A port \in {8080, 9090} :
            LET name == hashname(60, <<pf.args.ObjectMeta.Namespace, pf.args.ObjectMeta.Name,
                                       FormatInt(port)>>)
                held == { k \in DOMAIN pf.result : pf.result[k].Name = name }
            IN  IF Carrying(pf.args, port) = {}
                THEN held = {}
                ELSE /\ Cardinality(held) = 1
                     /\ \A k \in held :
                           AddressesOf(pf.result[k])
                               = UNION { { pf.args.Subsets[n].Addresses[a]
                                           : a \in DOMAIN pf.args.Subsets[n].Addresses }
                                         : n \in Carrying(pf.args, port) }

\* C38: every Cluster emitted for the TCP port of a Service names, as its
\* EDS service name, the ClusterLoadAssignment emitted for the Endpoints of
\* the same namespace and name on the port the target port stands for.
C38_ServiceNameIsClusterName ==
    pf.fn = "edsNames" =>
        /\ Len(pf.result.clusters) > 0
        /\ Len(pf.result.assignments) = 1
        /\ \A k \in DOMAIN pf.result.clusters :
              pf.result.clusters[k].ServiceName = pf.result.assignments[1].Name

\* The route list has a route whose prefix is a proper prefix of the prefix
\* of a route that stands after it: the shorter prefix shadows the longer.
Shadowed(l) ==
    \E i \in DOMAIN l : \E j \in DOMAIN l :
        /\ i < j
        /\ l[i].Match.Regex = "" /\ l[j].Match.Regex = ""
        /\ l[i].Match.Prefix # l[j].Match.Prefix
        /\ IsPrefix(l[i].Match.Prefix, l[j].Match.Prefix)

AllPrefixes(l) == \A k \in DOMAIN l : l[k].Match.Regex = ""

\* C39: the sorted routes of a virtual host whose routes are all prefix
\* matches never have a prefix standing before a prefix it is a proper prefix
\* of; and among the route lists with a regex match there is one whose sorted
\* routes do have a shorter prefix before a longer one it is a prefix of.
C39_NoShadowedPrefix ==
    /\ (pf.fn = "sortRoutes" /\ AllPrefixes(pf.args)) => ~Shadowed(pf.result)
    /\ \E l \in RouteLists : ~AllPrefixes(l) /\ Shadowed(sortRoutes(l))

\* Three prefix routes produced with the shortest first and each a prefix of
\* the next, which the sort has turned round.
C39_Witness ==
    /\ pf.fn = "sortRoutes"
    /\ AllPrefixes(pf.args)
    /\ Len(pf.args) = 3
    /\ Shadowed(pf.args)
    /\ IsPrefix(pf.args[1].Match.Prefix, pf.args[2].Match.Prefix)
    /\ IsPrefix(pf.args[2].Match.Prefix, pf.args[3].Match.Prefix)
    /\ pf.result = << pf.args[3], pf.args[2], pf.args[1] >>

====
